---- MODULE Spec2Model ----
(***************************************************************************)
(* Model of the server-side aggregation pipeline of animals-near-me:       *)
(* the observation deduplicator, the response cache, the cache key, the    *)
(* avian (eBird) client with its tiling, and the GET /observations         *)
(* handler.                                                                *)
(*                                                                         *)
(* Units.  Coordinates of observations are points of a local plane, in     *)
(* metres; at the 30 m scale of the deduplicator the great-circle          *)
(* distance of distanceKm is the plane distance.  Times are milliseconds   *)
(* (Date.now()).                                                           *)
(***************************************************************************)
EXTENDS Integers, Sequences, FiniteSets, TLC

VARIABLES
    observations,   \* deduplicateObservations: its argument
    deduplicated,   \* deduplicateObservations: the indices it accepted, in order
    result,         \* deduplicateObservations: the list it returned
    cache,          \* the Map of cache.ts, as its entries in insertion order
    now,            \* Date.now()
    ticks,          \* how many times the clock has advanced
    setCalls,       \* how many setCached calls have been made
    lastOp,         \* the last cache call: its arguments, locals and return value
    keyCalls,       \* the getCacheKey calls made: arguments and returned key
    ebird,          \* a fetchRecentEbird call: arguments, sub-requests, outcome
    ebirdApiKey,    \* whether process.env.EBIRD_API_KEY is set
    cacheModule,    \* which getCacheKey the handler's import resolves to
    reqs,           \* the GET /observations invocations: locals and response
    answered,       \* history: the lists stored by 200 answers, per key
    bursts,         \* how many times other viewports have filled the cache
    share,          \* one invocation of the share endpoint
    normalized,     \* the normalizer calls made: record, time, result
    client,         \* MapScreen: region, debounced region, timer, fetches
    inat,           \* one call of the iNaturalist client and what it returned
    store           \* the client's observation store and its fetches

dedupVars == <<observations, deduplicated, result>>
cacheVars == <<cache, now, ticks, setCalls, lastOp>>
keyVars == <<keyCalls>>
ebirdVars == <<ebird>>
handlerVars == <<ebirdApiKey, cacheModule, reqs, answered, bursts>>
shareVars == <<share>>
normalizeVars == <<normalized>>
clientVars == <<client>>
inatVars == <<inat>>
storeVars == <<store>>
vars == <<observations, deduplicated, result, cache, now, ticks, setCalls, lastOp,
          keyCalls, ebird, ebirdApiKey, cacheModule, reqs, answered, bursts,
          share, normalized, client, inat, store>>

\* What the steps of one part leave unchanged.
restVars == <<shareVars, normalizeVars, clientVars, inatVars, storeVars>>
exceptDedup == <<cacheVars, keyVars, ebirdVars, handlerVars, restVars>>
exceptCache == <<dedupVars, keyVars, ebirdVars, handlerVars, restVars>>
exceptKey == <<dedupVars, cacheVars, ebirdVars, handlerVars, restVars>>
exceptEbird == <<dedupVars, cacheVars, keyVars, handlerVars, restVars>>
exceptHandler ==
    <<dedupVars, keyVars, ebirdVars, ticks, setCalls, lastOp, restVars>>
exceptShare ==
    <<dedupVars, cacheVars, keyVars, ebirdVars, handlerVars, normalizeVars,
      clientVars, inatVars, storeVars>>
exceptNormalize ==
    <<dedupVars, cache, ticks, setCalls, lastOp, keyVars, ebirdVars,
      handlerVars, shareVars, clientVars, inatVars, storeVars>>
exceptClient ==
    <<dedupVars, cache, ticks, setCalls, lastOp, keyVars, ebirdVars,
      handlerVars, shareVars, normalizeVars, inatVars, storeVars>>
exceptInat ==
    <<dedupVars, cacheVars, keyVars, ebirdVars, handlerVars, shareVars,
      normalizeVars, clientVars, storeVars>>
exceptStore ==
    <<dedupVars, cacheVars, keyVars, ebirdVars, handlerVars, shareVars,
      normalizeVars, clientVars, inatVars>>

\* Each specification below runs one part of the program and leaves the state
\* of the other parts as it is here.
DedupIdle ==
    /\ observations = <<>>
    /\ deduplicated = <<>>
    /\ result = <<>>

CacheIdle ==
    /\ cache = <<>>
    /\ now = 0
    /\ ticks = 0
    /\ setCalls = 0
    /\ lastOp = [op |-> "none"]

KeyIdle == keyCalls = <<>>

EbirdIdle == ebird = [pc |-> "idle"]

HandlerIdle ==
    /\ ebirdApiKey = TRUE
    /\ cacheModule = "viewportAndFilters"
    /\ reqs = <<>>
    /\ answered = {}
    /\ bursts = 0

ShareIdle == share = [pc |-> "idle"]

NormalizeIdle == normalized = <<>>

ClientIdle == client = [pc |-> "idle"]

InatIdle == inat = [pc |-> "idle"]

StoreIdle == store = [pc |-> "idle"]

RestIdle ==
    ShareIdle /\ NormalizeIdle /\ ClientIdle /\ InatIdle /\ StoreIdle

\* JavaScript's undefined (an optional field that is absent).
Undefined == "undefined"

\* JavaScript's null, which no string of a query equals.
Null == "(null)"

----
\* ------------------------------------------------------------ deduplicator

\* 30 metres (0.03 km in the source).
DEDUPE_DISTANCE_M == 30

\* Square of the distance of two points, in square metres.
distSq(p1, p2) ==
    (p1[1] - p2[1]) * (p1[1] - p2[1]) + (p1[2] - p2[2]) * (p1[2] - p2[2])

\* dist < DEDUPE_DISTANCE_M, compared on the squares.
closerThanDedupe(existing, obs) ==
    distSq(existing.pos, obs.pos) < DEDUPE_DISTANCE_M * DEDUPE_DISTANCE_M

sameSpecies_bothNames(existing, obs) ==
    /\ existing.commonName = obs.commonName
    /\ existing.scientificName = obs.scientificName

sameSpecies_anySpecies(existing, obs) == TRUE

\* === on two optional strings: undefined === undefined is true.
sameSpecies(existing, obs) ==
    \/ existing.commonName = obs.commonName
    \/ existing.scientificName = obs.scientificName

isDuplicate_lastAccepted(obsList, accepted, obs) ==
    /\ Len(accepted) > 0
    /\ sameSpecies(obsList[accepted[Len(accepted)]], obs)
    /\ closerThanDedupe(obsList[accepted[Len(accepted)]], obs)

\* result.some(existing => sameSpecies && dist < DEDUPE_DISTANCE_M), where
\* accepted holds the indices of the records of result.
isDuplicate(obsList, accepted, obs) ==
    \E k \in 1..Len(accepted) :
        /\ sameSpecies(obsList[accepted[k]], obs)
        /\ closerThanDedupe(obsList[accepted[k]], obs)

RECURSIVE dedupeLoop_previousOnly(_, _, _, _)
dedupeLoop_previousOnly(obsList, i, seen, accepted) ==
    IF i > Len(obsList) THEN accepted
    ELSE IF obsList[i].id \in seen
         THEN dedupeLoop_previousOnly(obsList, i + 1, seen, accepted)
         ELSE IF /\ i > 1
                 /\ sameSpecies(obsList[i - 1], obsList[i])
                 /\ closerThanDedupe(obsList[i - 1], obsList[i])
              THEN dedupeLoop_previousOnly(obsList, i + 1, seen, accepted)
              ELSE dedupeLoop_previousOnly(obsList, i + 1,
                                           seen \cup {obsList[i].id},
                                           Append(accepted, i))

\* The for loop, from input index i on, with the ids seen and the indices
\* accepted so far.
RECURSIVE dedupeLoop(_, _, _, _)
dedupeLoop(obsList, i, seen, accepted) ==
    IF i > Len(obsList) THEN accepted
    ELSE IF obsList[i].id \in seen
         THEN dedupeLoop(obsList, i + 1, seen, accepted)
         ELSE IF isDuplicate(obsList, accepted, obsList[i])
              THEN dedupeLoop(obsList, i + 1, seen, accepted)
              ELSE dedupeLoop(obsList, i + 1, seen \cup {obsList[i].id},
                              Append(accepted, i))

\* The indices of the input that deduplicateObservations pushes to result.
acceptedIndices(obsList) == dedupeLoop(obsList, 1, {}, <<>>)

deduplicateObservations(obsList) ==
    LET acc == acceptedIndices(obsList)
    IN  [k \in 1..Len(acc) |-> obsList[acc[k]]]

----
\* ------------------------------------------------------------------ cache

CACHE_TTL_MS == 5 * 60 * 1000

\* cache.size > 100
CACHE_MAX_SIZE == 100

\* "Remove oldest 20 entries"
CACHE_EVICT_COUNT == 20

\* cache.get(key): no entry, or the one entry of the key.
mapGet(c, key) == SelectSeq(c, LAMBDA e : e.key = key)

\* cache.delete(key)
mapDelete(c, key) == SelectSeq(c, LAMBDA e : e.key # key)

mapSet_keepsTimestamp(c, key, observationList, timestamp) ==
    IF mapGet(c, key) = <<>>
    THEN Append(c, [key |-> key, observations |-> observationList,
                    timestamp |-> timestamp])
    ELSE [i \in 1..Len(c) |->
             IF c[i].key = key
             THEN [c[i] EXCEPT !.observations = observationList]
             ELSE c[i]]

\* cache.set(key, value): a key the Map holds keeps its place in the
\* insertion order, a new key goes last.
mapSet(c, key, observationList, timestamp) ==
    LET entry == [key |-> key, observations |-> observationList,
                  timestamp |-> timestamp]
    IN  IF mapGet(c, key) = <<>>
        THEN Append(c, entry)
        ELSE [i \in 1..Len(c) |-> IF c[i].key = key THEN entry ELSE c[i]]

isStale_atTtl(entry, t) == t - entry.timestamp >= CACHE_TTL_MS

\* age > CACHE_TTL_MS
isStale(entry, t) == t - entry.timestamp > CACHE_TTL_MS

\* The value getCached(key) returns at time t: null, or the stored list.
getCachedValue(c, key, t) ==
    LET found == mapGet(c, key)
    IN  IF found = <<>> THEN [isNull |-> TRUE, observations |-> <<>>]
        ELSE IF isStale(found[1], t)
             THEN [isNull |-> TRUE, observations |-> <<>>]
             ELSE [isNull |-> FALSE, observations |-> found[1].observations]

getCachedStore_placeholder(c, key, t) ==
    LET found == mapGet(c, key)
    IN  IF found = <<>> THEN mapSet(c, key, <<>>, t)
        ELSE IF isStale(found[1], t) THEN mapSet(c, key, <<>>, t)
        ELSE c

\* The store after getCached(key) at time t: a stale entry is deleted.
getCachedStore(c, key, t) ==
    LET found == mapGet(c, key)
    IN  IF found # <<>> /\ isStale(found[1], t) THEN mapDelete(c, key) ELSE c

sortedPlace_newestFirst(c, i) ==
    1 + Cardinality({ j \in 1..Len(c) :
                        \/ c[j].timestamp > c[i].timestamp
                        \/ (c[j].timestamp = c[i].timestamp /\ j < i) })

\* entries.sort((a, b) => a[1].timestamp - b[1].timestamp) is a stable sort:
\* the place of entry i of the insertion order in the sorted array is one more
\* than the number of entries that are older, or as old and inserted before it.
sortedPlace(c, i) ==
    1 + Cardinality({ j \in 1..Len(c) :
                        \/ c[j].timestamp < c[i].timestamp
                        \/ (c[j].timestamp = c[i].timestamp /\ j < i) })

\* The keys the sweep of setCached deletes from a store c: those of
\* entries[i] for i < 20 && i < entries.length, if cache.size > 100.
sweepVictims(c) ==
    IF Len(c) > CACHE_MAX_SIZE
    THEN { c[i].key : i \in { k \in 1..Len(c) :
                               sortedPlace(c, k) <= CACHE_EVICT_COUNT } }
    ELSE {}

setCached_firstWriterWins(c, key, observationList, t) ==
    IF mapGet(c, key) # <<>> THEN c
    ELSE LET stored == mapSet(c, key, observationList, t)
         IN  SelectSeq(stored, LAMBDA e : e.key \notin sweepVictims(stored))

setCached_nonEmptyOnly(c, key, observationList, t) ==
    IF observationList = <<>> THEN c
    ELSE LET stored == mapSet(c, key, observationList, t)
         IN  SelectSeq(stored, LAMBDA e : e.key \notin sweepVictims(stored))

\* The store after setCached(key, observations) at time t.
setCached(c, key, observationList, t) ==
    LET stored == mapSet(c, key, observationList, t)
        victims == sweepVictims(stored)
    IN  SelectSeq(stored, LAMBDA e : e.key \notin victims)

----
\* --------------------------------- the sweep: setCached on ever new keys

MaxEvictTicks == 1

EvictInit ==
    /\ DedupIdle
    /\ CacheIdle
    /\ KeyIdle
    /\ EbirdIdle
    /\ RestIdle
    /\ HandlerIdle

\* setCached with a key never used before (the keys are 1, 2, 3, ...).
SetCachedNewKey ==
    /\ setCalls < CACHE_MAX_SIZE + CACHE_EVICT_COUNT
    /\ setCalls' = setCalls + 1
    /\ cache' = setCached(cache, setCalls + 1, <<>>, now)
    /\ lastOp' = [op |-> "set", key |-> setCalls + 1, at |-> now,
                  before |-> mapSet(cache, setCalls + 1, <<>>, now)]
    /\ UNCHANGED <<now, ticks>>
    /\ UNCHANGED exceptCache

\* A millisecond passes.
EvictTick ==
    /\ ticks < MaxEvictTicks
    /\ ticks' = ticks + 1
    /\ now' = now + 1
    /\ UNCHANGED <<cache, setCalls, lastOp>>
    /\ UNCHANGED exceptCache

EvictNext == SetCachedNewKey \/ EvictTick

SpecEvict == EvictInit /\ [][EvictNext]_vars

----
\* --------------------------------- getCached and setCached on a few keys

MaxTicks == 3
MaxSetCalls == 2

CacheKeys == {1, 2}

CacheLists == {<<>>, <<"ebird-1">>, <<"ebird-1", "inat-7">>}

\* The clock advances by a millisecond or by the time to live.
TickSteps == {1, CACHE_TTL_MS}

CacheInit ==
    /\ DedupIdle
    /\ CacheIdle
    /\ KeyIdle
    /\ EbirdIdle
    /\ RestIdle
    /\ HandlerIdle

GetCached(key) ==
    /\ lastOp' = [op |-> "get", key |-> key, at |-> now,
                  entry |-> mapGet(cache, key),
                  returned |-> getCachedValue(cache, key, now)]
    /\ cache' = getCachedStore(cache, key, now)
    /\ UNCHANGED <<now, ticks, setCalls>>
    /\ UNCHANGED exceptCache

SetCached(key, observationList) ==
    /\ setCalls < MaxSetCalls
    /\ setCalls' = setCalls + 1
    /\ cache' = setCached(cache, key, observationList, now)
    /\ lastOp' = [op |-> "set", key |-> key, at |-> now,
                  before |-> mapSet(cache, key, observationList, now)]
    /\ UNCHANGED <<now, ticks>>
    /\ UNCHANGED exceptCache

Tick(d) ==
    /\ ticks < MaxTicks
    /\ ticks' = ticks + 1
    /\ now' = now + d
    /\ UNCHANGED <<cache, setCalls, lastOp>>
    /\ UNCHANGED exceptCache

CacheNext ==
    \/ \E key \in CacheKeys : GetCached(key)
    \/ \E key \in CacheKeys, l \in CacheLists : SetCached(key, l)
    \/ \E d \in TickSteps : Tick(d)

SpecCache == CacheInit /\ [][CacheNext]_vars

----
\* -------------------------------------------------------------- cache key

\* Angles are integers, in units of 0.0001 degree.

\* Math.round(x * m) for x = a / 10000 and 10000 / m = q: the nearest integer,
\* a half rounded up.
mathRound(a, q) == (2 * a + q) \div (2 * q)

\* The strings that are sorted, in the order of JavaScript's default sort
\* (by UTF-16 code units).
SortOrder ==
    <<"Amphibian", "Arachnid", "Bird", "Fish", "Fungi", "Insect", "Mammal",
      "Mollusk", "Other", "Plant", "Reptile", "ebird", "inat">>

sortRank(str) == CHOOSE i \in 1..Len(SortOrder) : SortOrder[i] = str

RECURSIVE insertString(_, _)
insertString(sorted, str) ==
    IF sorted = <<>> THEN <<str>>
    ELSE IF sortRank(sorted[Len(sorted)]) <= sortRank(str)
         THEN Append(sorted, str)
         ELSE Append(insertString(SubSeq(sorted, 1, Len(sorted) - 1), str),
                     sorted[Len(sorted)])

sortStrings_unsorted(list) == list

\* [...list].sort()
RECURSIVE sortStrings(_)
sortStrings(list) ==
    IF list = <<>> THEN <<>>
    ELSE insertString(sortStrings(SubSeq(list, 1, Len(list) - 1)),
                      list[Len(list)])

\* filterParts: each part is <<name, values>>, for `name:values.join(",")`.
filterParts(filters) ==
    (IF filters.recency # Null /\ filters.recency # ""
     THEN <<  <<"recency", <<filters.recency>> >>  >> ELSE <<>>)
    \o (IF filters.hasPhoto # Null
        THEN <<  <<"hasPhoto", <<filters.hasPhoto>> >>  >> ELSE <<>>)
    \o (IF Len(filters.taxa) > 0
        THEN <<  <<"taxa", sortStrings(filters.taxa)>>  >> ELSE <<>>)
    \o (IF Len(filters.provider) > 0
        THEN <<  <<"provider", sortStrings(filters.provider)>>  >> ELSE <<>>)

\* The key string, as its parts: the four rounded numbers (latitude and
\* longitude in hundredths, the deltas in thousandths of a degree), then the
\* filter parts that follow the "|".
getCacheKey(lat, lng, latDelta, lngDelta, filters) ==
    <<mathRound(lat, 100), mathRound(lng, 100),
      mathRound(latDelta, 10), mathRound(lngDelta, 10),
      filterParts(filters)>>

\* getCacheKey of server/utils/cache.ts: the four rounded numbers and nothing
\* after them. A fifth argument of a call is not looked at.
getCacheKeyOfViewport(lat, lng, latDelta, lngDelta) ==
    <<mathRound(lat, 100), mathRound(lng, 100),
      mathRound(latDelta, 10), mathRound(lngDelta, 10), <<>> >>

\* The repository holds the two cache modules above, and the handler imports
\* getCacheKey from "../../server/utils/cache": a deployment runs one of them.
CacheModules == {"viewport", "viewportAndFilters"}

importedGetCacheKey(module, lat, lng, latDelta, lngDelta, filters) ==
    IF module = "viewport"
    THEN getCacheKeyOfViewport(lat, lng, latDelta, lngDelta)
    ELSE getCacheKey(lat, lng, latDelta, lngDelta, filters)

----
\* ------------------------------------------- two calls of getCacheKey

MaxListLen == 2

KeyTaxa == {"Bird", "Mammal"}
KeyProviders == {"ebird", "inat"}
KeyRecency == {Null, "today"}
KeyHasPhoto == {Null, "true", "false"}
KeyLats == {377749, 377650, 377751}
KeyLng == -1224150
KeyDelta == 5004

ListsOver(S) == UNION { [1..n -> S] : n \in 0..MaxListLen }

KeyFilterParams ==
    [recency : KeyRecency, hasPhoto : KeyHasPhoto,
     taxa : ListsOver(KeyTaxa), provider : ListsOver(KeyProviders)]

Elements(list) == { list[i] : i \in 1..Len(list) }

\* The same rounded viewport and the same semantic content: recency, hasPhoto,
\* the set of taxa and the set of providers.
SameContent(a, b) ==
    /\ mathRound(a.lat, 100) = mathRound(b.lat, 100)
    /\ a.filters.recency = b.filters.recency
    /\ a.filters.hasPhoto = b.filters.hasPhoto
    /\ Elements(a.filters.taxa) = Elements(b.filters.taxa)
    /\ Elements(a.filters.provider) = Elements(b.filters.provider)

KeyInit ==
    /\ DedupIdle
    /\ CacheIdle
    /\ KeyIdle
    /\ EbirdIdle
    /\ RestIdle
    /\ HandlerIdle

keyCall(lat, filters) ==
    [lat |-> lat, filters |-> filters,
     key |-> getCacheKey(lat, KeyLng, KeyDelta, KeyDelta, filters)]

\* A first request's key.
FirstKey(lat, filters) ==
    /\ keyCalls = <<>>
    /\ keyCalls' = <<keyCall(lat, filters)>>
    /\ UNCHANGED exceptKey

\* The key of a second request, with the content of the first.
SecondKey(lat, filters) ==
    /\ Len(keyCalls) = 1
    /\ SameContent(keyCalls[1], [lat |-> lat, filters |-> filters])
    /\ keyCalls' = Append(keyCalls, keyCall(lat, filters))
    /\ UNCHANGED exceptKey

KeyNext ==
    \/ \E lat \in KeyLats, filters \in KeyFilterParams : FirstKey(lat, filters)
    \/ \E lat \in KeyLats, filters \in KeyFilterParams : SecondKey(lat, filters)

SpecKey == KeyInit /\ [][KeyNext]_vars

----
\* ------------------------------------------------------ the avian client

\* Distances are in units of 10 m, tile centres are offsets <<east, north>>
\* from the centre of the call, in the frame of createTiles: 111 km to a degree of
\* latitude and 111 km * cos(lat) to a degree of longitude.

MAX_RADIUS_KM == 50 * 100

MAX_BACK_DAYS == 30

Min_first(a, b) == a

\* Math.min
Min(a, b) == IF a < b THEN a ELSE b

gridSize_alwaysTwo(radiusKm) == 2

\* radiusKm > 100 ? 3 : 2
gridSize(radiusKm) == IF radiusKm > 100 * 100 THEN 3 ELSE 2

\* (i - (gridSize - 1) / 2) * tileSpacing with tileSpacing = radiusKm * 2 /
\* gridSize, i.e. (2 i - gridSize + 1) * radiusKm / gridSize.
tileOffset(i, radiusKm) ==
    ((2 * i - gridSize(radiusKm) + 1) * radiusKm) \div gridSize(radiusKm)

\* The tile centres, in the order of the two nested loops (i: latitude,
\* j: longitude).
createTiles(radiusKm) ==
    LET g == gridSize(radiusKm)
    IN  [k \in 1..(g * g) |->
            <<tileOffset((k - 1) % g, radiusKm),
              tileOffset((k - 1) \div g, radiusKm)>>]

\* The request fetchEbirdSingle sends: centre, dist and back of its URL.
ebirdRequest(center, radiusKm, backDays) ==
    [center |-> center,
     dist |-> Min(radiusKm, MAX_RADIUS_KM),
     back |-> Min(backDays, MAX_BACK_DAYS),
     state |-> "pending",
     data |-> <<>>]

\* The sub-requests fetchRecentEbird issues once it has its apiKey.
ebirdRequests(radiusKm, backDays) ==
    IF radiusKm <= MAX_RADIUS_KM
    THEN << ebirdRequest(<<0, 0>>, radiusKm, backDays) >>
    ELSE LET tiles == createTiles(radiusKm)
         IN  [k \in 1..Len(tiles) |->
                 ebirdRequest(tiles[k], MAX_RADIUS_KM, backDays)]

\* results.flat()
RECURSIVE flat(_)
flat(lists) ==
    IF lists = <<>> THEN <<>> ELSE Head(lists) \o flat(Tail(lists))

\* A record as normalizeEbird returns it.
ebirdObservation(nativeId, commonName, scientificName, pos) ==
    [id |-> <<"ebird", nativeId>>, provider |-> "ebird", pos |-> pos,
     commonName |-> commonName, scientificName |-> scientificName,
     taxaBucket |-> "Bird", photoUrl |-> Undefined]

----
\* ------------------------------------------- one call of fetchRecentEbird

\* 27.75 km, 50 km, 50.02 km, 100 km, 111 km
EbirdRadii == {2775, 5000, 5002, 10000, 11100}
EbirdBackDays == {7, 45}

EbirdInit ==
    /\ DedupIdle
    /\ CacheIdle
    /\ KeyIdle
    /\ EbirdIdle
    /\ RestIdle
    /\ HandlerIdle

\* fetchRecentEbird is called: without EBIRD_API_KEY it throws, with it the
\* sub-requests are sent.
FetchRecentEbird(radiusKm, backDays, apiKey) ==
    /\ ebird.pc = "idle"
    /\ ebird' = IF ~apiKey
                THEN [pc |-> "thrown", radiusKm |-> radiusKm,
                      backDays |-> backDays, requests |-> <<>>,
                      value |-> <<>>]
                ELSE [pc |-> "waiting", radiusKm |-> radiusKm,
                      backDays |-> backDays,
                      requests |-> ebirdRequests(radiusKm, backDays),
                      value |-> <<>>]
    /\ UNCHANGED exceptEbird

\* fetchEbirdSingle: the response is ok and an array, which is normalized.
EbirdResponds(k) ==
    /\ ebird.pc = "waiting"
    /\ k \in 1..Len(ebird.requests)
    /\ ebird.requests[k].state = "pending"
    /\ ebird' = [ebird EXCEPT
                   !.requests[k].state = "ok",
                   !.requests[k].data =
                       << ebirdObservation(k, "Robin", "Turdus", <<0, 0>>) >>]
    /\ UNCHANGED exceptEbird

\* fetchEbirdSingle: fetch throws, the status is not ok or the body is not
\* JSON; the catch returns [].
EbirdFails(k) ==
    /\ ebird.pc = "waiting"
    /\ k \in 1..Len(ebird.requests)
    /\ ebird.requests[k].state = "pending"
    /\ ebird' = [ebird EXCEPT !.requests[k].state = "failed",
                              !.requests[k].data = <<>>]
    /\ UNCHANGED exceptEbird

\* Promise.all has every result: fetchRecentEbird returns.
EbirdReturns ==
    /\ ebird.pc = "waiting"
    /\ \A k \in 1..Len(ebird.requests) : ebird.requests[k].state # "pending"
    /\ ebird' = [ebird EXCEPT
                   !.pc = "returned",
                   !.value = flat([k \in 1..Len(ebird.requests) |->
                                      ebird.requests[k].data])]
    /\ UNCHANGED exceptEbird

EbirdNext ==
    \/ \E r \in EbirdRadii, b \in EbirdBackDays, apiKey \in BOOLEAN :
           FetchRecentEbird(r, b, apiKey)
    \/ \E k \in 1..9 : EbirdResponds(k)
    \/ \E k \in 1..9 : EbirdFails(k)
    \/ EbirdReturns

SpecEbird == EbirdInit /\ [][EbirdNext]_vars

----
\* ------------------------------------------------------ GET /observations

\* A query parameter that is absent.
Missing == "(missing)"

\* parseFloat of a raw query value: an absent value and text without a
\* leading number give NaN; a number, or a number followed by other
\* characters, gives the number.
parseFloat(raw) ==
    IF raw.kind \in {"number", "prefixed"}
    THEN [nan |-> FALSE, v |-> raw.v]
    ELSE [nan |-> TRUE, v |-> 0]

\* isNaN(lat) || isNaN(lng) || isNaN(latDelta) || isNaN(lngDelta) ||
\* latDelta <= 0 || lngDelta <= 0
invalidParameters(lat, lng, latDelta, lngDelta) ==
    \/ lat.nan
    \/ lng.nan
    \/ latDelta.nan
    \/ lngDelta.nan
    \/ latDelta.v <= 0
    \/ lngDelta.v <= 0

validTaxa ==
    {"Bird", "Mammal", "Reptile", "Amphibian", "Fish", "Insect", "Arachnid",
     "Mollusk", "Plant", "Fungi", "Other"}

\* The filters read from the query; taxa and provider arrive split at the
\* commas, and an absent or empty value is falsy.
parseFilters(query) ==
    [recency  |-> IF query.recency \in {Missing, ""} THEN Null
                  ELSE query.recency,
     hasPhoto |-> IF query.hasPhoto \in {Missing, ""} THEN Null
                  ELSE IF query.hasPhoto = "true" THEN "true" ELSE "false",
     taxa     |-> SelectSeq(query.taxa, LAMBDA t : t \in validTaxa),
     provider |-> SelectSeq(query.provider,
                            LAMBDA p : p = "ebird" \/ p = "inat")]

invalidRecency(filters) ==
    /\ filters.recency # Null
    /\ filters.recency \notin {"today", "this_week", "this_month"}

\* Angles are in 1e-4 degree; the deltas drawn below are even.
viewportToBoundingBox(lat, lng, latDelta, lngDelta) ==
    [ne |-> <<lat + latDelta \div 2, lng + lngDelta \div 2>>,
     sw |-> <<lat - latDelta \div 2, lng - lngDelta \div 2>>]

\* radiusKm is in units of 10 m, as MAX_RADIUS_KM is.
viewportToCenterRadius(lat, lng, latDelta, lngDelta) ==
    [center   |-> <<lat, lng>>,
     radiusKm |-> Min(((latDelta + lngDelta) * 111) \div 400, 50 * 100)]

recencyDays(recency) ==
    CASE recency = "today" -> 1
      [] recency = "this_week" -> 7
      [] recency = "this_month" -> 30

backDays(filters) ==
    IF filters.recency # Null THEN recencyDays(filters.recency) ELSE 7

recentDays(filters) ==
    IF filters.recency # Null THEN recencyDays(filters.recency) ELSE 14

shouldFetchEbird(filters) ==
    Len(filters.provider) = 0 \/ "ebird" \in Elements(filters.provider)

shouldFetchInat(filters) ==
    Len(filters.provider) = 0 \/ "inat" \in Elements(filters.provider)

shouldFetchEbirdWithPhotoFilter_anyPhoto(filters) ==
    shouldFetchEbird(filters)

shouldFetchEbirdWithPhotoFilter(filters) ==
    shouldFetchEbird(filters) /\ ~(filters.hasPhoto = "true")

\* The call fetchInat sends for the handler's options; bbox is preferred.
inatRequest(bbox, days, hasPhotos) ==
    [bbox |-> bbox, recentDays |-> days, hasPhotos |-> hasPhotos,
     state |-> "pending", data |-> <<>>]

inatRequests_twice(bbox, filters) ==
    LET request == inatRequest(bbox, recentDays(filters),
                               IF filters.hasPhoto = Null THEN Undefined
                               ELSE filters.hasPhoto)
    IN  <<request, request>>

\* fetchInat is called once and sends one request.
inatRequests(bbox, filters) ==
    << inatRequest(bbox, recentDays(filters),
                   IF filters.hasPhoto = Null THEN Undefined
                   ELSE filters.hasPhoto) >>

\* A record as normalizeInat returns it.
inatObservation(nativeId, commonName, scientificName, taxaBucket, pos, photoUrl) ==
    [id |-> <<"inat", nativeId>>, provider |-> "inat", pos |-> pos,
     commonName |-> commonName, scientificName |-> scientificName,
     taxaBucket |-> taxaBucket, photoUrl |-> photoUrl]

allObservations_ebirdOnly(ebirdObservations, inatObservations) ==
    ebirdObservations

\* [...ebirdObservations, ...inatObservations]
allObservations(ebirdObservations, inatObservations) ==
    ebirdObservations \o inatObservations

\* The filters applied after the fetch: taxa, provider, photo.
filterObservations(list, filters) ==
    LET byTaxa ==
            IF Len(filters.taxa) > 0
            THEN SelectSeq(list, LAMBDA obs :
                     obs.taxaBucket \in Elements(filters.taxa))
            ELSE list
        byProvider ==
            IF Len(filters.provider) > 0
            THEN SelectSeq(byTaxa, LAMBDA obs :
                     obs.provider \in Elements(filters.provider))
            ELSE byTaxa
    IN  IF filters.hasPhoto = "true"
        THEN SelectSeq(byProvider, LAMBDA obs : obs.photoUrl # Undefined)
        ELSE IF filters.hasPhoto = "false"
        THEN SelectSeq(byProvider, LAMBDA obs : obs.photoUrl = Undefined)
        ELSE byProvider

cacheHit_nonEmpty(cached) ==
    ~cached.isNull /\ cached.observations # <<>>

\* if (cached): any stored list, the empty one included, is truthy.
cacheHit(cached) == ~cached.isNull

\* The locals of one invocation at the point where it answers or awaits.
\* stored is the entry the Map held for the key when the request arrived.
invocation(query, at) ==
    [pc |-> "done", query |-> query, at |-> at, filters |-> <<>>,
     cacheKey |-> <<>>, lookedUp |-> FALSE, stored |-> <<>>, hit |-> FALSE,
     ebird |-> <<>>, inat |-> <<>>, status |-> 0, body |-> <<>>,
     message |-> ""]

\* The handler from its entry to its first return or to the await of
\* Promise.all. fetchRecentEbird is async: without the key its promise is
\* rejected, the fetchInat call is made all the same, and Promise.all
\* rejects into the catch.
handlerEntry(query, c, t, key, module) ==
    LET lat == parseFloat(query.lat)
        lng == parseFloat(query.lng)
        latDelta == parseFloat(query.latDelta)
        lngDelta == parseFloat(query.lngDelta)
        filters == parseFilters(query)
        cacheKey ==
            importedGetCacheKey(module, lat.v, lng.v, latDelta.v, lngDelta.v,
                                filters)
        cached == getCachedValue(c, cacheKey, t)
        bbox == viewportToBoundingBox(lat.v, lng.v, latDelta.v, lngDelta.v)
        centerRadius ==
            viewportToCenterRadius(lat.v, lng.v, latDelta.v, lngDelta.v)
        ebirdCalls ==
            IF shouldFetchEbirdWithPhotoFilter(filters) /\ key
            THEN ebirdRequests(centerRadius.radiusKm, backDays(filters))
            ELSE <<>>
        inatCalls ==
            IF shouldFetchInat(filters) THEN inatRequests(bbox, filters)
            ELSE <<>>
        looked == [invocation(query, t) EXCEPT
                     !.filters = filters, !.cacheKey = cacheKey,
                     !.lookedUp = TRUE, !.stored = mapGet(c, cacheKey)]
    IN  IF query.method # "GET"
        THEN [invocation(query, t) EXCEPT !.status = 405]
        ELSE IF invalidParameters(lat, lng, latDelta, lngDelta)
        THEN [invocation(query, t) EXCEPT !.status = 400]
        ELSE IF invalidRecency(filters)
        THEN [invocation(query, t) EXCEPT !.status = 400,
                                          !.filters = filters]
        ELSE IF cacheHit(cached)
        THEN [looked EXCEPT !.hit = TRUE, !.status = 200,
                            !.body = cached.observations]
        ELSE IF shouldFetchEbirdWithPhotoFilter(filters) /\ ~key
        THEN [looked EXCEPT !.inat = inatCalls, !.status = 500,
                !.message =
                    "EBIRD_API_KEY environment variable is required"]
        ELSE [looked EXCEPT !.pc = "waiting", !.ebird = ebirdCalls,
                            !.inat = inatCalls]

\* A request arrives and runs up to its first return or await.
Request(query) ==
    LET entered == handlerEntry(query, cache, now, ebirdApiKey, cacheModule)
    IN  /\ reqs' = Append(reqs, entered)
        /\ cache' = IF entered.lookedUp
                    THEN getCachedStore(cache, entered.cacheKey, now)
                    ELSE cache
        /\ UNCHANGED <<ebirdApiKey, cacheModule, answered, bursts, now>>
        /\ UNCHANGED exceptHandler

\* fetchEbirdSingle of invocation r: an ok response holding an array.
HandlerEbirdResponds(r, k, data) ==
    /\ r \in 1..Len(reqs)
    /\ k \in 1..Len(reqs[r].ebird)
    /\ reqs[r].ebird[k].state = "pending"
    /\ reqs' = [reqs EXCEPT ![r].ebird[k].state = "ok",
                            ![r].ebird[k].data = data]
    /\ UNCHANGED <<ebirdApiKey, cacheModule, answered, bursts, now, cache>>
    /\ UNCHANGED exceptHandler

\* fetchEbirdSingle of invocation r: a thrown fetch, a status that is not
\* ok or a body that does not parse; the catch returns [].
HandlerEbirdFails(r, k) ==
    /\ r \in 1..Len(reqs)
    /\ k \in 1..Len(reqs[r].ebird)
    /\ reqs[r].ebird[k].state = "pending"
    /\ reqs' = [reqs EXCEPT ![r].ebird[k].state = "failed",
                            ![r].ebird[k].data = <<>>]
    /\ UNCHANGED <<ebirdApiKey, cacheModule, answered, bursts, now, cache>>
    /\ UNCHANGED exceptHandler

\* fetchInat of invocation r: an ok response, normalized.
HandlerInatResponds(r, data) ==
    /\ r \in 1..Len(reqs)
    /\ Len(reqs[r].inat) = 1
    /\ reqs[r].inat[1].state = "pending"
    /\ reqs' = [reqs EXCEPT ![r].inat[1].state = "ok",
                            ![r].inat[1].data = data]
    /\ UNCHANGED <<ebirdApiKey, cacheModule, answered, bursts, now, cache>>
    /\ UNCHANGED exceptHandler

\* fetchInat of invocation r: any failure inside its try; the catch
\* returns [].
HandlerInatFails(r) ==
    /\ r \in 1..Len(reqs)
    /\ Len(reqs[r].inat) = 1
    /\ reqs[r].inat[1].state = "pending"
    /\ reqs' = [reqs EXCEPT ![r].inat[1].state = "failed",
                            ![r].inat[1].data = <<>>]
    /\ UNCHANGED <<ebirdApiKey, cacheModule, answered, bursts, now, cache>>
    /\ UNCHANGED exceptHandler

settled_withoutWaiting(calls) == TRUE

\* The promise of a client resolves once none of its calls is pending.
settled(calls) == \A k \in 1..Len(calls) : calls[k].state # "pending"

\* What the handler computes once Promise.all has both lists.
handlerResult(req) ==
    LET ebirdObservations ==
            flat([k \in 1..Len(req.ebird) |-> req.ebird[k].data])
        inatObservations ==
            flat([k \in 1..Len(req.inat) |-> req.inat[k].data])
    IN  filterObservations(
            deduplicateObservations(
                allObservations(ebirdObservations, inatObservations)),
            req.filters)

\* Promise.all resolves: combine, deduplicate, filter, store, answer 200.
HandlerResponds(r) ==
    /\ r \in 1..Len(reqs)
    /\ reqs[r].pc = "waiting"
    /\ settled(reqs[r].ebird)
    /\ settled(reqs[r].inat)
    /\ LET filtered == handlerResult(reqs[r])
       IN  /\ cache' = setCached(cache, reqs[r].cacheKey, filtered, now)
           /\ reqs' = [reqs EXCEPT ![r].pc = "done", ![r].status = 200,
                                   ![r].body = filtered]
           /\ answered' = answered \cup
                  {[query |-> reqs[r].query, body |-> filtered, at |-> now,
                    arrived |-> Len(reqs), by |-> r]}
    /\ UNCHANGED <<ebirdApiKey, cacheModule, bursts, now>>
    /\ UNCHANGED exceptHandler

----
\* ------------------------------------------- one request, start to finish

number(v) == [kind |-> "number", v |-> v]
prefixed(v) == [kind |-> "prefixed", v |-> v]
absent == [kind |-> "missing", v |-> 0]
text == [kind |-> "text", v |-> 0]

\* 37.7749, 95 degrees, "37.7749abc", absent
RequestLats == {number(377749), number(950000), prefixed(377749), absent}
\* -122.415, 190 degrees, "abc"
RequestLngs == {number(-1224150), number(1900000), text}
\* 0.5, 0, absent, "abc"
RequestLatDeltas == {number(5000), number(0), absent, text}
\* 0.5, -0.5, absent
RequestLngDeltas == {number(5000), number(-5000), absent}
RequestRecency == {Missing, "today", "yesterday"}
RequestHasPhoto == {Missing, "true", "false"}
RequestTaxa == {<<>>, <<"Mammal">>, <<"Bird", "Dragon">>}
RequestProvider == {<<>>, <<"ebird">>, <<"inat">>}

RequestQueries ==
    [method : {"GET", "POST"}, lat : RequestLats, lng : RequestLngs,
     latDelta : RequestLatDeltas, lngDelta : RequestLngDeltas,
     recency : RequestRecency, hasPhoto : RequestHasPhoto,
     taxa : RequestTaxa, provider : RequestProvider]

\* What the upstream services hold. The two eBird robins are 10 m apart;
\* the iNaturalist robins are 20 m and 25 m from the first of them; the fox
\* is at its place.
EbirdData ==
    { << ebirdObservation(1, "Robin", "Turdus", <<0, 0>>) >>,
      << ebirdObservation(1, "Robin", "Turdus", <<0, 0>>),
         ebirdObservation(2, "Robin", "Turdus", <<10, 0>>) >> }

InatData ==
    { << inatObservation(1, "Robin", "Turdus", "Bird", <<20, 0>>, "photo-1"),
         inatObservation(2, "Fox", "Vulpes", "Mammal", <<0, 0>>, Undefined) >>,
      << inatObservation(1, "Robin", "Turdus", "Bird", <<20, 0>>, "photo-1"),
         inatObservation(3, "Robin", "Turdus", "Bird", <<25, 0>>,
                         Undefined) >> }

RequestInit ==
    /\ DedupIdle
    /\ CacheIdle
    /\ KeyIdle
    /\ EbirdIdle
    /\ RestIdle
    /\ ebirdApiKey \in BOOLEAN
    /\ cacheModule \in CacheModules
    /\ reqs = <<>>
    /\ answered = {}
    /\ bursts = 0

RequestNext ==
    \/ reqs = <<>> /\ \E query \in RequestQueries : Request(query)
    \/ \E r \in 1..Len(reqs), data \in EbirdData :
           \E k \in 1..Len(reqs[r].ebird) : HandlerEbirdResponds(r, k, data)
    \/ \E r \in 1..Len(reqs) :
           \E k \in 1..Len(reqs[r].ebird) : HandlerEbirdFails(r, k)
    \/ \E r \in 1..Len(reqs), data \in InatData : HandlerInatResponds(r, data)
    \/ \E r \in 1..Len(reqs) : HandlerInatFails(r)
    \/ \E r \in 1..Len(reqs) : HandlerResponds(r)

SpecRequest == RequestInit /\ [][RequestNext]_vars

----
\* ------------------------------------------ the endpoint under concurrency

MaxRequests == 3
MaxInFlight == 2
MaxBursts == 1
MaxServerTicks == 1

\* The clock advances by the TTL.
ServerTickSteps == {CACHE_TTL_MS}

\* One viewport, asked for its mammals.
ServerQueries ==
    { [method |-> "GET", lat |-> number(377749), lng |-> number(-1224150),
       latDelta |-> number(5000), lngDelta |-> number(5000),
       recency |-> Missing, hasPhoto |-> Missing, taxa |-> <<"Mammal">>,
       provider |-> <<>>] }

ServerEbirdData == { << ebirdObservation(1, "Robin", "Turdus", <<0, 0>>) >> }

ServerInatData ==
    { << inatObservation(1, "Robin", "Turdus", "Bird", <<20, 0>>, "photo-1"),
         inatObservation(2, "Fox", "Vulpes", "Mammal", <<0, 0>>,
                         Undefined) >> }

\* The key of the i-th other viewport, i degrees of longitude away.
otherCacheKey(i) ==
    importedGetCacheKey(cacheModule, 377749, i * 10000, 5000, 5000,
                [recency |-> Null, hasPhoto |-> Null, taxa |-> <<>>,
                 provider |-> <<>>])

\* setCached for the viewports lo..hi in turn. The range is halved and the
\* first half is evaluated before the second is entered, which keeps the
\* evaluation shallow.
RECURSIVE storeOthers(_, _, _, _)
storeOthers(c, lo, hi, t) ==
    IF lo = hi THEN setCached(c, otherCacheKey(lo), <<>>, t)
    ELSE LET firstHalf == storeOthers(c, lo, (lo + hi) \div 2, t)
         IN  IF Len(firstHalf) = 0 THEN firstHalf
             ELSE storeOthers(firstHalf, (lo + hi) \div 2 + 1, hi, t)

\* Requests for CACHE_MAX_SIZE other viewports are served, each a miss that
\* stores its list, between two steps of the requests followed here.
OtherViewportsServed ==
    /\ bursts < MaxBursts
    /\ bursts' = bursts + 1
    /\ cache' = storeOthers(cache, 1, CACHE_MAX_SIZE, now)
    /\ UNCHANGED <<ebirdApiKey, cacheModule, reqs, answered, now>>
    /\ UNCHANGED exceptHandler

\* Time passes between two steps of the handlers.
TimePasses(d) ==
    /\ ticks < MaxServerTicks
    /\ ticks' = ticks + 1
    /\ now' = now + d
    /\ UNCHANGED <<cache, setCalls, lastOp>>
    /\ UNCHANGED exceptCache

InFlight == { r \in 1..Len(reqs) : reqs[r].pc = "waiting" }

Init ==
    /\ DedupIdle
    /\ CacheIdle
    /\ KeyIdle
    /\ EbirdIdle
    /\ RestIdle
    /\ ebirdApiKey = TRUE
    /\ cacheModule \in CacheModules
    /\ reqs = <<>>
    /\ answered = {}
    /\ bursts = 0

Next ==
    \/ /\ Len(reqs) < MaxRequests
       /\ Cardinality(InFlight) < MaxInFlight
       /\ \E query \in ServerQueries : Request(query)
    \/ \E r \in 1..Len(reqs), data \in ServerEbirdData :
           \E k \in 1..Len(reqs[r].ebird) : HandlerEbirdResponds(r, k, data)
    \/ \E r \in 1..Len(reqs) :
           \E k \in 1..Len(reqs[r].ebird) : HandlerEbirdFails(r, k)
    \/ \E r \in 1..Len(reqs), data \in ServerInatData :
           HandlerInatResponds(r, data)
    \/ \E r \in 1..Len(reqs) : HandlerInatFails(r)
    \/ \E r \in 1..Len(reqs) : HandlerResponds(r)
    \/ \E d \in ServerTickSteps : TimePasses(d)
    \/ OtherViewportsServed

Spec == Init /\ [][Next]_vars

----
\* ------------------------------------------- viewports of growing extent

\* 0.5, 0.9, 1.0 and 2.0 degrees
ViewportDeltas == {number(5000), number(9000), number(10000), number(20000)}

\* Requests centred on (37.7749, -122.4194), without filters or for one
\* provider.
ViewportQueries ==
    [method : {"GET"}, lat : {number(377749)}, lng : {number(-1224194)},
     latDelta : ViewportDeltas, lngDelta : ViewportDeltas,
     recency : {Missing}, hasPhoto : {Missing}, taxa : {<<>>},
     provider : {<<>>, <<"ebird">>}]

ViewportNext ==
    \/ reqs = <<>> /\ \E query \in ViewportQueries : Request(query)
    \/ \E r \in 1..Len(reqs), data \in ServerEbirdData :
           \E k \in 1..Len(reqs[r].ebird) : HandlerEbirdResponds(r, k, data)
    \/ \E r \in 1..Len(reqs) :
           \E k \in 1..Len(reqs[r].ebird) : HandlerEbirdFails(r, k)
    \/ \E r \in 1..Len(reqs), data \in ServerInatData :
           HandlerInatResponds(r, data)
    \/ \E r \in 1..Len(reqs) : HandlerInatFails(r)
    \/ \E r \in 1..Len(reqs) : HandlerResponds(r)

SpecViewport == RequestInit /\ [][ViewportNext]_vars

----
\* ------------------------------------- one viewport under several filters

MaxFilterRequests == 2

\* Requests for one viewport that differ in their filters only.
FilterQueries ==
    [method : {"GET"}, lat : {number(377749)}, lng : {number(-1224150)},
     latDelta : {number(5000)}, lngDelta : {number(5000)},
     recency : {Missing}, hasPhoto : {Missing, "true", "false"},
     taxa : {<<>>, <<"Mammal">>}, provider : {<<>>, <<"inat">>}]

FilterNext ==
    \/ /\ Len(reqs) < MaxFilterRequests
       /\ \E query \in FilterQueries : Request(query)
    \/ \E r \in 1..Len(reqs), data \in ServerEbirdData :
           \E k \in 1..Len(reqs[r].ebird) : HandlerEbirdResponds(r, k, data)
    \/ \E r \in 1..Len(reqs) :
           \E k \in 1..Len(reqs[r].ebird) : HandlerEbirdFails(r, k)
    \/ \E r \in 1..Len(reqs), data \in ServerInatData :
           HandlerInatResponds(r, data)
    \/ \E r \in 1..Len(reqs) : HandlerInatFails(r)
    \/ \E r \in 1..Len(reqs) : HandlerResponds(r)

SpecFilters == RequestInit /\ [][FilterNext]_vars

----
\* --------------------------- overlapping requests, good and bad, over time

MaxOverlapRequests == 3
MaxOverlapTicks == 1

\* The clock advances by a millisecond or to just past the TTL.
OverlapTickSteps == {1, CACHE_TTL_MS + 1}

\* One viewport asked for by everyone and by iNaturalist users, a POST, a
\* latitude that is no number and a recency that is none of the three.
OverlapQueries ==
    LET good == [method |-> "GET", lat |-> number(377749),
                 lng |-> number(-1224150), latDelta |-> number(5000),
                 lngDelta |-> number(5000), recency |-> Missing,
                 hasPhoto |-> Missing, taxa |-> <<>>, provider |-> <<>>]
    IN  { good,
          [good EXCEPT !.provider = <<"inat">>],
          [good EXCEPT !.method = "POST"],
          [good EXCEPT !.lat = text],
          [good EXCEPT !.recency = "yesterday"] }

\* Time passes between two steps of the handlers.
OverlapTimePasses(d) ==
    /\ ticks < MaxOverlapTicks
    /\ ticks' = ticks + 1
    /\ now' = now + d
    /\ UNCHANGED <<cache, setCalls, lastOp>>
    /\ UNCHANGED exceptCache

OverlapNext ==
    \/ /\ Len(reqs) < MaxOverlapRequests
       /\ \E query \in OverlapQueries : Request(query)
    \/ \E r \in 1..Len(reqs), data \in ServerEbirdData :
           \E k \in 1..Len(reqs[r].ebird) : HandlerEbirdResponds(r, k, data)
    \/ \E r \in 1..Len(reqs) :
           \E k \in 1..Len(reqs[r].ebird) : HandlerEbirdFails(r, k)
    \/ \E r \in 1..Len(reqs), data \in ServerInatData :
           HandlerInatResponds(r, data)
    \/ \E r \in 1..Len(reqs) : HandlerInatFails(r)
    \/ \E r \in 1..Len(reqs) : HandlerResponds(r)
    \/ \E d \in OverlapTickSteps : OverlapTimePasses(d)

SpecOverlap == RequestInit /\ [][OverlapNext]_vars

----
\* ---------------------------------------------------- GET /observation/{id}

\* An id is written as its pieces in order: a piece is a dash or a string
\* without a dash.
Dash == "-"
NumericPieces == {"42", "7"}

HasDash(s) == \E i \in 1..Len(s) : s[i] = Dash

split_lastDash(s) ==
    IF ~HasDash(s) THEN << s >>
    ELSE LET d == CHOOSE i \in 1..Len(s) :
                      s[i] = Dash /\ \A j \in (i + 1)..Len(s) : s[j] # Dash
         IN  << SubSeq(s, 1, d - 1), SubSeq(s, d + 1, Len(s)) >>

\* id.split("-")
RECURSIVE split(_)
split(s) ==
    IF ~HasDash(s) THEN << s >>
    ELSE LET d == CHOOSE i \in 1..Len(s) :
                      s[i] = Dash /\ \A j \in 1..(i - 1) : s[j] # Dash
         IN  << SubSeq(s, 1, d - 1) >> \o split(SubSeq(s, d + 1, Len(s)))

\* parts.join("-")
RECURSIVE join(_)
join(parts) ==
    IF parts = <<>> THEN <<>>
    ELSE IF Len(parts) = 1 THEN parts[1]
    ELSE parts[1] \o <<Dash>> \o join(Tail(parts))

RECURSIVE digitsPrefix(_)
digitsPrefix(s) ==
    IF s = <<>> THEN <<>>
    ELSE IF Head(s) \notin NumericPieces THEN <<>>
    ELSE <<Head(s)>> \o digitsPrefix(Tail(s))

\* parseInt(providerId, 10): an optional sign, then the leading digits; NaN
\* when there is none.
parseInt(s) ==
    LET negative == s # <<>> /\ Head(s) = Dash
        digits == digitsPrefix(IF negative THEN Tail(s) ELSE s)
    IN  [nan |-> digits = <<>>, negative |-> negative, digits |-> digits]

\* The locals of the share handler when it answers or awaits.
shareInvocation(method, id, wantsJson) ==
    [pc |-> "done", method |-> method, id |-> id, wantsJson |-> wantsJson,
     provider |-> <<>>, providerId |-> <<>>, call |-> <<>>, status |-> 0,
     error |-> "", message |-> "", observation |-> <<>>, redirect |-> <<>>]

\* The share handler from its entry to its first return or to the await of
\* fetchInatById.
shareEntry(method, id, wantsJson) ==
    LET entered == shareInvocation(method, id, wantsJson)
        parts == split(id.pieces)
        provider == parts[1]
        providerId == join(Tail(parts))
        numericId == parseInt(providerId)
        parsed == [entered EXCEPT !.provider = provider,
                                  !.providerId = providerId]
    IN  IF method # "GET"
        THEN [entered EXCEPT !.status = 405, !.error = "Method not allowed"]
        ELSE IF id.kind # "string" \/ id.pieces = <<>>
        THEN [entered EXCEPT !.status = 400,
                             !.error = "Invalid observation ID"]
        ELSE IF Len(parts) < 2
        THEN [entered EXCEPT !.status = 400,
                             !.error = "Invalid observation ID format"]
        ELSE IF provider = <<"inat">>
        THEN IF numericId.nan
             THEN [parsed EXCEPT
                     !.status = 400,
                     !.error = "Invalid iNaturalist observation ID"]
             ELSE [parsed EXCEPT
                     !.pc = "waiting",
                     !.call = << [numericId |-> numericId,
                                  state |-> "pending"] >>]
        ELSE IF provider = <<"ebird">>
        THEN [parsed EXCEPT
                !.status = 501,
                !.error = "Sharing eBird observations is not yet supported",
                !.message = "eBird API doesn't support fetching observations by ID directly"]
        ELSE [parsed EXCEPT !.status = 400, !.error = "Unknown provider"]

\* A request reaches the share endpoint.
ShareRequest(method, id, wantsJson) ==
    /\ share.pc = "idle"
    /\ share' = shareEntry(method, id, wantsJson)
    /\ UNCHANGED exceptShare

\* fetchInatById resolves: with the normalized observation when the response
\* is ok and georeferenced, with null (here an empty list) on 404, on a
\* record without location and on any failure; the handler then answers
\* 404, 200 or 302.
ShareInatResponds(outcome) ==
    /\ share.pc = "waiting"
    /\ LET observation ==
               IF outcome = "ok"
               THEN << inatObservation(share.call[1].numericId, "Fox",
                                       "Vulpes", "Mammal", <<0, 0>>,
                                       Undefined) >>
               ELSE <<>>
       IN  share' =
               IF observation = <<>>
               THEN [share EXCEPT !.pc = "done", !.call[1].state = outcome,
                                  !.status = 404,
                                  !.error = "Observation not found"]
               ELSE IF share.wantsJson
               THEN [share EXCEPT !.pc = "done", !.call[1].state = outcome,
                                  !.status = 200,
                                  !.observation = observation]
               ELSE [share EXCEPT !.pc = "done", !.call[1].state = outcome,
                                  !.status = 302,
                                  !.redirect = share.id.pieces]
    /\ UNCHANGED exceptShare

MaxIdLen == 4

IdPieces == {"ebird", "inat", "gbif", "x7", Dash} \cup NumericPieces

PiecesUpTo(n) ==
    UNION { [1..m -> IdPieces] : m \in 0..n }

\* req.query.id: absent, repeated (an array) or a string.
ShareIds ==
    { [kind |-> "missing", pieces |-> <<>>],
      [kind |-> "array", pieces |-> <<>>] }
    \cup { [kind |-> "string", pieces |-> p] : p \in PiecesUpTo(MaxIdLen) }

ShareOutcomes == {"ok", "unlocated", "404", "failed"}

ShareInit ==
    /\ DedupIdle
    /\ CacheIdle
    /\ KeyIdle
    /\ EbirdIdle
    /\ HandlerIdle
    /\ RestIdle

ShareNext ==
    \/ \E method \in {"GET", "POST"}, id \in ShareIds, wantsJson \in BOOLEAN :
           ShareRequest(method, id, wantsJson)
    \/ \E outcome \in ShareOutcomes : ShareInatResponds(outcome)

SpecShare == ShareInit /\ [][ShareNext]_vars

----
\* ------------------------------------------------------------ normalizer

\* a || b for values of which undefined and "" are the falsy ones
orElse(a, b) == IF a = Undefined \/ a = "" THEN b ELSE a

\* `ebird-${ebirdData.obsId || ebirdData.subId || Date.now()}`: the provider
\* tag and what follows the dash.
ebirdId(ebirdData, t) ==
    <<"ebird", orElse(ebirdData.obsId, orElse(ebirdData.subId, ToString(t)))>>

normalizeEbird(ebirdData, t) ==
    [id |-> ebirdId(ebirdData, t), provider |-> "ebird",
     pos |-> ebirdData.pos, commonName |-> ebirdData.comName,
     scientificName |-> ebirdData.sciName, taxaBucket |-> "Bird",
     photoUrl |-> Undefined]

\* mapping[iconicTaxonName] || "Other", for the names drawn here
mapInatTaxa(iconicTaxonName) ==
    CASE iconicTaxonName = "Aves" -> "Bird"
      [] iconicTaxonName = "Mammalia" -> "Mammal"
      [] OTHER -> "Other"

\* The location string of an upstream record: absent, "", or the pieces
\* between its commas.
noLocation == [kind |-> "missing", parts |-> <<>>]
emptyLocation == [kind |-> "empty", parts |-> <<>>]
locationString(parts) == [kind |-> "string", parts |-> parts]

\* inatData.location as a condition: undefined and "" are falsy.
hasLocation(inatData) == inatData.location.kind = "string"

\* inatData.location.split(",")[k]: undefined past the last piece.
splitPiece(location, k) ==
    IF k <= Len(location.parts) THEN location.parts[k] ELSE absent

\* inatData.location ? parseFloat(inatData.location.split(",")[k]) : 0
coordinate(inatData, k) ==
    IF hasLocation(inatData)
    THEN parseFloat(splitPiece(inatData.location, k))
    ELSE [nan |-> FALSE, v |-> 0]

\* The strings new Date(...) parses to a date; any other gives Invalid Date.
ValidDates == {"2024-05-01"}

\* new Date(s).toISOString() for a date without time
toISOString(s) == s \o "T00:00:00.000Z"

\* new Date(observed_on_string).toISOString() throws a RangeError on an
\* Invalid Date.
normalizeInatThrows(inatData) ==
    /\ inatData.observed_on_string # Undefined
    /\ inatData.observed_on_string \notin ValidDates

\* The observation normalizeInat returns when it does not throw. A
\* coordinate is a number or NaN: pos holds the numbers, nan says which of
\* the two are NaN.
normalizeInat(inatData) ==
    [id |-> <<"inat", ToString(inatData.id)>>, provider |-> "inat",
     pos |-> <<coordinate(inatData, 1).v, coordinate(inatData, 2).v>>,
     nan |-> <<coordinate(inatData, 1).nan, coordinate(inatData, 2).nan>>,
     observedAt |-> IF inatData.observed_on_string # Undefined
                    THEN toISOString(inatData.observed_on_string)
                    ELSE inatData.time_observed_at,
     commonName |-> orElse(inatData.taxon.preferred_common_name,
                           inatData.taxon.name),
     scientificName |-> inatData.taxon.name,
     taxaBucket |-> mapInatTaxa(inatData.taxon.iconic_taxon_name),
     photoUrl |-> inatData.photoUrl]

MaxNormalized == 2

\* Records of the avian service: obsId is absent from the recent-observations
\* payload, subId names the checklist.
EbirdRecords ==
    { [obsId |-> obsId, subId |-> subId, comName |-> species[1],
       sciName |-> species[2], pos |-> <<0, 0>>] :
          obsId \in {Undefined, "OBS1"}, subId \in {Undefined, "S1", "S2"},
          species \in {<<"Robin", "Turdus">>, <<"Jay", "Cyanocitta">>} }

InatRecords ==
    [id : {1, 2}, location : {locationString(<<number(0), number(0)>>)},
     observed_on_string : {"2024-05-01"}, time_observed_at : {Undefined},
     taxon : [preferred_common_name : {Undefined, "Fox"}, name : {"Vulpes"},
              iconic_taxon_name : {"Mammalia", Undefined}],
     photoUrl : {Undefined}]

NormalizeInit ==
    /\ DedupIdle
    /\ CacheIdle
    /\ KeyIdle
    /\ EbirdIdle
    /\ HandlerIdle
    /\ RestIdle

\* A fetch hands one record of the avian service to normalizeEbird.
NormalizeEbird(ebirdData) ==
    /\ Len(normalized) < MaxNormalized
    /\ normalized' = Append(normalized,
           [provider |-> "ebird", raw |-> ebirdData, at |-> now,
            observation |-> normalizeEbird(ebirdData, now)])
    /\ UNCHANGED now
    /\ UNCHANGED exceptNormalize

\* A fetch hands one record of iNaturalist to normalizeInat.
NormalizeInat(inatData) ==
    /\ Len(normalized) < MaxNormalized
    /\ normalized' = Append(normalized,
           [provider |-> "inat", raw |-> inatData, at |-> now,
            observation |-> normalizeInat(inatData)])
    /\ UNCHANGED now
    /\ UNCHANGED exceptNormalize

NormalizeNext ==
    \/ \E ebirdData \in EbirdRecords : NormalizeEbird(ebirdData)
    \/ \E inatData \in InatRecords : NormalizeInat(inatData)
    \/ TimePasses(1)

SpecNormalize == NormalizeInit /\ [][NormalizeNext]_vars

----
\* ------------------------------------------------- the iNaturalist client

fetchInatResult_wellFormedOnly(results) ==
    LET kept == SelectSeq(results, LAMBDA obs :
                    hasLocation(obs) /\ ~normalizeInatThrows(obs))
    IN  [k \in 1..Len(kept) |-> normalizeInat(kept[k])]

\* observations.filter(obs => obs.location).map(normalizeInat) inside the
\* try of fetchInat: a throw of normalizeInat on any record lands in the
\* catch, which returns [].
fetchInatResult(results) ==
    LET georeferenced == SelectSeq(results, LAMBDA obs : hasLocation(obs))
    IN  IF \E k \in 1..Len(georeferenced) :
               normalizeInatThrows(georeferenced[k])
        THEN <<>>
        ELSE [k \in 1..Len(georeferenced) |-> normalizeInat(georeferenced[k])]

\* fetchInatById after response.json(): null (the empty sequence here) for
\* a record without location or when normalizeInat throws, else the
\* observation.
fetchInatByIdResult(observation) ==
    IF ~hasLocation(observation) THEN <<>>
    ELSE IF normalizeInatThrows(observation) THEN <<>>
    ELSE <<normalizeInat(observation)>>

MaxPage == 2

\* "37.7749,-122.4194", "abc", "37.7749", "37.7749,abc", absent, ""
InatLocations ==
    { locationString(<<number(377749), number(-1224194)>>),
      locationString(<<text>>), locationString(<<number(377749)>>),
      locationString(<<number(377749), text>>), noLocation, emptyLocation }

\* Upstream records; "last spring" is no date.
InatUpstream ==
    [id : {1}, location : InatLocations,
     observed_on_string : {Undefined, "2024-05-01", "last spring"},
     time_observed_at : {"2024-05-01T10:00:00Z"},
     taxon : [preferred_common_name : {"Fox"}, name : {"Vulpes"},
              iconic_taxon_name : {"Mammalia"}],
     photoUrl : {Undefined}]

RECURSIVE InatPages(_)
InatPages(n) ==
    IF n = 0 THEN {<<>>}
    ELSE InatPages(n - 1)
           \cup { Append(page, [obs EXCEPT !.id = Len(page) + 1]) :
                      page \in { q \in InatPages(n - 1) : Len(q) = n - 1 },
                      obs \in InatUpstream }

InatInit ==
    /\ DedupIdle
    /\ CacheIdle
    /\ KeyIdle
    /\ EbirdIdle
    /\ HandlerIdle
    /\ ShareIdle
    /\ NormalizeIdle
    /\ ClientIdle
    /\ StoreIdle
    /\ inat = [pc |-> "idle"]

\* fetchInat is called and awaits fetch.
FetchInat ==
    /\ inat.pc = "idle"
    /\ inat' = [pc |-> "pending", op |-> "list", response |-> <<>>,
                outcome |-> "none", result |-> <<>>]
    /\ UNCHANGED exceptInat

\* fetchInatById is called and awaits fetch.
FetchInatById ==
    /\ inat.pc = "idle"
    /\ inat' = [pc |-> "pending", op |-> "byId", response |-> <<>>,
                outcome |-> "none", result |-> <<>>]
    /\ UNCHANGED exceptInat

\* The service answers the list request with a page of records.
InatResponds(results) ==
    /\ inat.pc = "pending"
    /\ inat.op = "list"
    /\ inat' = [inat EXCEPT !.pc = "done", !.response = results,
                            !.outcome = "ok",
                            !.result = fetchInatResult(results)]
    /\ UNCHANGED exceptInat

\* The service answers the point lookup with one record.
InatByIdResponds(observation) ==
    /\ inat.pc = "pending"
    /\ inat.op = "byId"
    /\ inat' = [inat EXCEPT !.pc = "done", !.response = <<observation>>,
                            !.outcome = "ok",
                            !.result = fetchInatByIdResult(observation)]
    /\ UNCHANGED exceptInat

\* fetch rejects or the status is not 2xx: [] from the catch of fetchInat,
\* null from fetchInatById.
InatFails ==
    /\ inat.pc = "pending"
    /\ inat' = [inat EXCEPT !.pc = "done", !.outcome = "failed"]
    /\ UNCHANGED exceptInat

InatNext ==
    \/ FetchInat
    \/ FetchInatById
    \/ \E results \in InatPages(MaxPage) : InatResponds(results)
    \/ \E observation \in InatUpstream : InatByIdResponds(observation)
    \/ InatFails

SpecInat == InatInit /\ [][InatNext]_vars

----
\* ------------------------------------- one page of either provider

\* An element of the array the avian service returns: a record, or null.
nullElement == [null |-> TRUE, record |-> <<>>]
element(record) == [null |-> FALSE, record |-> <<record>>]

\* normalizeEbird reads ebirdData.obsId: a TypeError on null.
normalizeEbirdThrows(ebirdData) == ebirdData.null

\* data.map(normalizeEbird) inside the try of fetchEbirdSingle: a throw on
\* any element lands in the catch, which returns [].
fetchEbirdSingleResult(data, t) ==
    IF \E k \in 1..Len(data) : normalizeEbirdThrows(data[k]) THEN <<>>
    ELSE [k \in 1..Len(data) |-> normalizeEbird(data[k].record[1], t)]

EbirdUpstream ==
    { nullElement,
      element([obsId |-> "OBS1", subId |-> "S1", comName |-> "Robin",
               sciName |-> "Turdus", pos |-> <<0, 0>>]),
      element([obsId |-> Undefined, subId |-> "S2", comName |-> "Jay",
               sciName |-> "Cyanocitta", pos |-> <<0, 0>>]) }

RECURSIVE EbirdPages(_)
EbirdPages(n) ==
    IF n = 0 THEN {<<>>}
    ELSE EbirdPages(n - 1)
           \cup { Append(page, e) :
                      page \in { q \in EbirdPages(n - 1) : Len(q) = n - 1 },
                      e \in EbirdUpstream }

\* fetchEbirdSingle gets an ok response whose body is the array data.
FetchEbirdSingle(data) ==
    /\ ebird.pc = "idle"
    /\ ebird' = [pc |-> "single", data |-> data,
                 value |-> fetchEbirdSingleResult(data, now)]
    /\ UNCHANGED exceptEbird

PagesNext ==
    \/ InatNext
    \/ \E data \in EbirdPages(MaxPage) : FetchEbirdSingle(data)

SpecPages == InatInit /\ [][PagesNext]_vars

----
\* ------------------------------------------------ MapScreen, useDebounce

DEBOUNCE_DELAY == 600

clearTimeout_noop(timers, id) == timers

\* clearTimeout(timeoutRef.current): the timer of that id, if it is still
\* pending, is removed.
clearTimeout(timers, id) == { t \in timers : t.id # id }

MaxChanges == 3
MaxClientTicks == 6
ClientTickStep == 200
Regions == {"A", "B", "C"}

ClientInit ==
    /\ DedupIdle
    /\ CacheIdle
    /\ KeyIdle
    /\ EbirdIdle
    /\ HandlerIdle
    /\ RestIdle

\* MapScreen mounts: the store has no viewport, and the effect fetches the
\* default region.
Mount ==
    /\ client.pc = "idle"
    /\ client' = [pc |-> "mounted", viewport |-> "DEFAULT_REGION",
                  timeoutRef |-> 0, timers |-> {}, changes |-> <<>>,
                  fetches |-> << [region |-> "DEFAULT_REGION", at |-> now,
                                  cause |-> "mount", after |-> 0] >>]
    /\ UNCHANGED now
    /\ UNCHANGED exceptClient

\* handleRegionChangeComplete: setViewport(region), then the debounced
\* function clears the timer of timeoutRef and sets a new one.
HandleRegionChangeComplete(region) ==
    /\ client.pc = "mounted"
    /\ Len(client.changes) < MaxChanges
    /\ LET id == Len(client.changes) + 1
       IN  client' = [client EXCEPT
               !.viewport = region,
               !.changes = Append(@, [region |-> region, at |-> now]),
               !.timers = clearTimeout(@, client.timeoutRef)
                              \cup {[id |-> id, args |-> region,
                                     due |-> now + DEBOUNCE_DELAY]},
               !.timeoutRef = id]
    /\ UNCHANGED now
    /\ UNCHANGED exceptClient

\* A timer that is due runs its callback: fetchObservationsForViewport with
\* the arguments of the call that set it.
TimeoutFires(id) ==
    /\ client.pc = "mounted"
    /\ \E t \in client.timers :
           /\ t.id = id
           /\ now >= t.due
           /\ client' = [client EXCEPT
                  !.timers = @ \ {t},
                  !.fetches = Append(@, [region |-> t.args, at |-> now,
                                         cause |-> "debounce",
                                         after |-> Len(client.changes)])]
    /\ UNCHANGED now
    /\ UNCHANGED exceptClient

\* Time passes on the device; a timer that is due may run late.
ClientTick ==
    /\ now < MaxClientTicks * ClientTickStep
    /\ now' = now + ClientTickStep
    /\ UNCHANGED client
    /\ UNCHANGED exceptClient

ClientNext ==
    \/ Mount
    \/ \E region \in Regions : HandleRegionChangeComplete(region)
    \/ \E id \in 1..MaxChanges : TimeoutFires(id)
    \/ ClientTick

SpecClient == ClientInit /\ [][ClientNext]_vars

----
\* ------------------------------------------------ the observation store

DEFAULT_FILTERS ==
    [recency |-> "this_week", hasPhoto |-> Null, taxa |-> <<>>,
     provider |-> <<"ebird", "inat">>]

\* JSON.stringify of a FilterParams object: its values in field order.
JSONstringify(filters) ==
    <<filters.recency, filters.hasPhoto, filters.taxa, filters.provider>>

putById_keepsExisting(list, obs) ==
    IF \E k \in 1..Len(list) : list[k].id = obs.id THEN list
    ELSE Append(list, obs)

\* observationMap.set(obs.id, obs): an id the Map holds keeps its place and
\* gets the new record, a new id goes last.
putById(list, obs) ==
    IF \E k \in 1..Len(list) : list[k].id = obs.id
    THEN [k \in 1..Len(list) |-> IF list[k].id = obs.id THEN obs ELSE list[k]]
    ELSE Append(list, obs)

RECURSIVE putAll(_, _)
putAll(list, observationList) ==
    IF observationList = <<>> THEN list
    ELSE putAll(putById(list, Head(observationList)), Tail(observationList))

\* The merging store: existing records into the Map, then the new ones,
\* then Array.from(observationMap.values()).
mergedObservations(existingObservations, newObservations) ==
    putAll(putAll(<<>>, existingObservations), newObservations)

\* The two versions of the store the repository holds: the one that
\* replaces the list and the one that merges into it.
StoreVariants == {"replace", "merge"}

MaxFetches == 3

StoreRegions == {"A", "B"}
StoreFilters == {DEFAULT_FILTERS, [DEFAULT_FILTERS EXCEPT !.taxa = <<"Bird">>]}

storeObservation(id, version) == [id |-> id, version |-> version]

\* The lists the server answers with.
StoreData ==
    { << storeObservation("inat-1", 1) >>,
      << storeObservation("inat-1", 2), storeObservation("ebird-S1", 1) >> }

StoreInit ==
    /\ DedupIdle
    /\ CacheIdle
    /\ KeyIdle
    /\ EbirdIdle
    /\ HandlerIdle
    /\ ShareIdle
    /\ NormalizeIdle
    /\ ClientIdle
    /\ InatIdle
    /\ \E variant \in StoreVariants :
           store = [pc |-> "mounted", variant |-> variant,
                    observations |-> <<>>, viewport |-> Null,
                    isLoading |-> FALSE, error |-> Null,
                    filters |-> DEFAULT_FILTERS, calls |-> <<>>,
                    completed |-> <<>>]

\* fetchObservationsForViewport up to its await: the flags are set and the
\* request goes out with the filters of this moment.
fetchStarted(st, viewport) ==
    [st EXCEPT !.isLoading = TRUE, !.error = Null,
               !.calls = Append(st.calls,
                    [viewport |-> viewport, filters |-> st.filters,
                     state |-> "pending", data |-> <<>>])]

\* setViewport(region), as handleRegionChangeComplete calls it.
SetViewport(region) ==
    /\ store.pc = "mounted"
    /\ store' = [store EXCEPT !.viewport = region]
    /\ UNCHANGED exceptStore

\* fetchObservationsForViewport(viewport) is called: on mount, by the
\* debounce timer of a region change.
FetchObservationsForViewport(viewport) ==
    /\ store.pc = "mounted"
    /\ Len(store.calls) < MaxFetches
    /\ store' = fetchStarted(store, viewport)
    /\ UNCHANGED exceptStore

\* handleRetry: clearError(), then a fetch for the store's viewport if it
\* has one.
HandleRetry ==
    /\ store.pc = "mounted"
    /\ store.error # Null
    /\ Len(store.calls) < MaxFetches
    /\ store' = IF store.viewport # Null
                THEN fetchStarted([store EXCEPT !.error = Null],
                                  store.viewport)
                ELSE [store EXCEPT !.error = Null]
    /\ UNCHANGED exceptStore

\* setFilters(filters): the filters are set; if they changed and there is a
\* viewport, the list is cleared and a fetch for that viewport starts.
SetFilters(filters) ==
    /\ store.pc = "mounted"
    /\ Len(store.calls) < MaxFetches
    /\ LET filtersChanged ==
               JSONstringify(store.filters) # JSONstringify(filters)
           withFilters == [store EXCEPT !.filters = filters]
       IN  store' =
               IF filtersChanged /\ store.viewport # Null
               THEN fetchStarted([withFilters EXCEPT !.observations = <<>>],
                                 store.viewport)
               ELSE withFilters
    /\ UNCHANGED exceptStore

\* fetchObservations of call c resolves: the list, the call's viewport and
\* isLoading: false are set.
FetchResolves(c, newObservations) ==
    /\ store.pc = "mounted"
    /\ c \in 1..Len(store.calls)
    /\ store.calls[c].state = "pending"
    /\ store' = [store EXCEPT
                   !.calls[c].state = "ok",
                   !.calls[c].data = newObservations,
                   !.completed = Append(store.completed, c),
                   !.observations =
                       IF store.variant = "merge"
                       THEN mergedObservations(store.observations,
                                               newObservations)
                       ELSE newObservations,
                   !.viewport = store.calls[c].viewport,
                   !.isLoading = FALSE]
    /\ UNCHANGED exceptStore

\* fetchObservations of call c rejects: the catch sets error and
\* isLoading: false.
FetchRejects(c) ==
    /\ store.pc = "mounted"
    /\ c \in 1..Len(store.calls)
    /\ store.calls[c].state = "pending"
    /\ store' = [store EXCEPT
                   !.calls[c].state = "failed",
                   !.completed = Append(store.completed, c),
                   !.error = "Failed to fetch observations",
                   !.isLoading = FALSE]
    /\ UNCHANGED exceptStore

StoreNext ==
    \/ \E region \in StoreRegions : SetViewport(region)
    \/ \E viewport \in StoreRegions : FetchObservationsForViewport(viewport)
    \/ HandleRetry
    \/ \E filters \in StoreFilters : SetFilters(filters)
    \/ \E c \in 1..MaxFetches, data \in StoreData : FetchResolves(c, data)
    \/ \E c \in 1..MaxFetches : FetchRejects(c)

SpecStore == StoreInit /\ [][StoreNext]_vars

----
\* ----------------------------------------- inputs of the deduplicator runs

MaxLen == 3

DedupIds == {<<"ebird", 1>>, <<"inat", 1>>, <<"inat", 2>>}
DedupSpecies == {<<"Robin", "Turdus">>, <<Undefined, "Cyanocitta">>,
                 <<Undefined, Undefined>>}
DedupPositions == {<<0, 0>>, <<20, 0>>, <<40, 0>>}

DedupObservations ==
    { [id |-> i, provider |-> i[1], pos |-> p, commonName |-> s[1],
       scientificName |-> s[2], taxaBucket |-> "Bird", photoUrl |-> Undefined] :
      i \in DedupIds, s \in DedupSpecies, p \in DedupPositions }

DedupInit ==
    /\ DedupIdle
    /\ CacheIdle
    /\ KeyIdle
    /\ EbirdIdle
    /\ RestIdle
    /\ HandlerIdle

\* A caller hands deduplicateObservations a list one record longer.
Deduplicate(obs) ==
    /\ Len(observations) < MaxLen
    /\ observations' = Append(observations, obs)
    /\ deduplicated' = acceptedIndices(observations')
    /\ result' = deduplicateObservations(observations')
    /\ UNCHANGED exceptDedup

DedupNext == \E obs \in DedupObservations : Deduplicate(obs)

SpecDedup == DedupInit /\ [][DedupNext]_vars

----
\* ------------------------------------------------ claims: the deduplicator

InRange(seq, x) == \E k \in 1..Len(seq) : seq[k] = x

\* The claims' own reading of "matching species" and "below 30 m".
SpeciesMatch(a, b) ==
    a.commonName = b.commonName \/ a.scientificName = b.scientificName

Below30m(a, b) ==
    LET dx == a.pos[1] - b.pos[1]
        dy == a.pos[2] - b.pos[2]
    IN  dx * dx + dy * dy < 900

\* C3 as stated: of every two input records a before b with matching species
\* and less than 30 m apart, a is in the output and b is not, chains included.
C3_FirstOfEveryPairSurvives ==
    \A i, j \in 1..Len(observations) :
        (i < j /\ SpeciesMatch(observations[i], observations[j])
               /\ Below30m(observations[i], observations[j]))
        => (InRange(deduplicated, i) /\ ~InRange(deduplicated, j))

\* C3 amended: a record is dropped whenever an earlier ACCEPTED record matches
\* its species within 30 m; the output is the list of the accepted records.
C3_AcceptedSuppressesLaterMatch ==
    /\ \A i, j \in 1..Len(observations) :
           (i < j /\ InRange(deduplicated, i)
                  /\ SpeciesMatch(observations[i], observations[j])
                  /\ Below30m(observations[i], observations[j]))
           => ~InRange(deduplicated, j)
    /\ Len(result) = Len(deduplicated)
    /\ \A k \in 1..Len(result) : result[k] = observations[deduplicated[k]]

\* A chain a, b, c: b is within 30 m of a and is dropped, c is within 30 m of
\* b only and is kept.
C3_ChainReached ==
    \E i, j, k \in 1..Len(observations) :
        /\ i < j /\ j < k
        /\ SpeciesMatch(observations[i], observations[j])
        /\ Below30m(observations[i], observations[j])
        /\ SpeciesMatch(observations[j], observations[k])
        /\ Below30m(observations[j], observations[k])
        /\ ~Below30m(observations[i], observations[k])
        /\ InRange(deduplicated, i)
        /\ ~InRange(deduplicated, j)
        /\ InRange(deduplicated, k)

DifferentSpeciesSamePlace(a, b) ==
    /\ a.id # b.id
    /\ a.pos = b.pos
    /\ a.commonName # b.commonName
    /\ a.scientificName # b.scientificName

\* C4: two records with distinct ids at the same coordinates whose commonName
\* differ and whose scientificName differ are both kept; in any input, a
\* record is dropped only for an accepted earlier record that has its id or
\* shares one of its names.
C4_DifferentSpeciesBothRetained ==
    /\ (Len(observations) = 2
        /\ DifferentSpeciesSamePlace(observations[1], observations[2]))
       => result = observations
    /\ \A j \in 1..Len(observations) :
           ~InRange(deduplicated, j)
           => \E i \in 1..(j - 1) :
                  /\ InRange(deduplicated, i)
                  /\ \/ observations[i].id = observations[j].id
                     \/ SpeciesMatch(observations[i], observations[j])

C4_TwoSpeciesAtOnePlaceReached ==
    /\ Len(observations) = 2
    /\ DifferentSpeciesSamePlace(observations[1], observations[2])
    /\ Len(result) = 2

\* C21: the output is a subsequence of the input in the input's order with
\* its records unaltered, no two output records share an id, and no two
\* output records match in species less than 30 m apart.
C21_OutputIsDuplicateFreeSubsequence ==
    /\ Len(result) = Len(deduplicated)
    /\ \A k \in 1..Len(deduplicated) :
           /\ deduplicated[k] \in 1..Len(observations)
           /\ result[k] = observations[deduplicated[k]]
    /\ \A k, l \in 1..Len(deduplicated) :
           k < l => deduplicated[k] < deduplicated[l]
    /\ \A k, l \in 1..Len(result) :
           k # l => /\ result[k].id # result[l].id
                    /\ ~(SpeciesMatch(result[k], result[l])
                           /\ Below30m(result[k], result[l]))

\* Three records with three ids, the middle one dropped as a near duplicate
\* of the first, the third of the first's species and kept farther away.
C21_DroppedBetweenTwoKeptReached ==
    /\ Len(observations) = 3
    /\ deduplicated = <<1, 3>>
    /\ observations[1].id # observations[2].id
    /\ SpeciesMatch(observations[1], observations[3])
    /\ ~Below30m(observations[1], observations[3])

\* C26: deduplicating the output again returns it unchanged, element for
\* element and in the same order.
C26_DeduplicationIsIdempotent ==
    deduplicateObservations(result) = result

\* A list of three that lost a record, leaving two of one species.
C26_ShortenedListReached ==
    /\ Len(observations) = 3
    /\ Len(result) = 2
    /\ SpeciesMatch(result[1], result[2])
    /\ deduplicateObservations(result) = result

NonEmptyMatch(a, b) ==
    \/ a.commonName # Undefined /\ a.commonName = b.commonName
    \/ a.scientificName # Undefined /\ a.scientificName = b.scientificName

\* C20: a record is dropped only for an accepted earlier record that has its
\* id or has a name field that is present on both and equal; two records that
\* share nothing but a missing name are both kept, even at one place.
C20_SpeciesMatchNeedsANonEmptyField ==
    \A j \in 1..Len(observations) :
        ~InRange(deduplicated, j)
        => \E i \in 1..(j - 1) :
               /\ InRange(deduplicated, i)
               /\ \/ observations[i].id = observations[j].id
                  \/ NonEmptyMatch(observations[i], observations[j])

----
\* ------------------------------------------------------ claims: the cache

KeysOf(c) == { c[i].key : i \in 1..Len(c) }

\* What the sweep of the last setCached removed.
SweptEntries ==
    { e \in { lastOp.before[i] : i \in 1..Len(lastOp.before) } :
      e.key \notin KeysOf(cache) }

\* C5: after 101 setCached calls with 101 distinct keys on an empty cache at
\* most 81 entries are left, 20 were removed, none of the removed is newer
\* than an entry that was kept, and the entry just written was kept.
C5_SweepRemovesTheOldestTwenty ==
    (setCalls = 101 /\ lastOp.op = "set")
    => /\ Len(cache) <= 81
       /\ Cardinality(SweptEntries) = 20
       /\ \A e \in SweptEntries :
              \A i \in 1..Len(cache) : e.timestamp <= cache[i].timestamp
       /\ lastOp.key \in KeysOf(cache)
       /\ lastOp.key \notin { e.key : e \in SweptEntries }

\* The 101st call has swept, and some removed entry is older than a kept one.
C5_SweepReached ==
    /\ setCalls = 101
    /\ lastOp.op = "set"
    /\ Len(cache) = 81
    /\ \E e \in SweptEntries :
           \E i \in 1..Len(cache) : e.timestamp < cache[i].timestamp

\* C6 as stated: getCached returns the stored list if and only if an entry
\* exists whose age is strictly less than the TTL (5 minutes), else null, and
\* an entry whose age has reached the TTL is removed by the read.
C6_HitIffAgeBelowTtl ==
    lastOp.op = "get"
    => LET young == /\ lastOp.entry # <<>>
                    /\ lastOp.at - lastOp.entry[1].timestamp < 300000
       IN  /\ young <=> ~lastOp.returned.isNull
           /\ young => lastOp.returned.observations = lastOp.entry[1].observations
           /\ (lastOp.entry # <<>> /\ ~young) => lastOp.key \notin KeysOf(cache)

\* C6 amended: getCached returns the stored list if and only if an entry
\* exists whose age is at most the TTL, else null; an entry whose age exceeds
\* the TTL is removed by the read, and no other entry is touched.
C6_HitIffAgeAtMostTtl ==
    lastOp.op = "get"
    => LET fresh == /\ lastOp.entry # <<>>
                    /\ lastOp.at - lastOp.entry[1].timestamp <= 300000
       IN  /\ fresh <=> ~lastOp.returned.isNull
           /\ fresh => /\ lastOp.returned.observations
                            = lastOp.entry[1].observations
                       /\ lastOp.key \in KeysOf(cache)
           /\ (lastOp.entry # <<>> /\ ~fresh) => lastOp.key \notin KeysOf(cache)

\* A read of an entry exactly as old as the TTL, which is a hit.
C6_ReadAtTtlReached ==
    /\ lastOp.op = "get"
    /\ lastOp.entry # <<>>
    /\ lastOp.at - lastOp.entry[1].timestamp = 300000
    /\ ~lastOp.returned.isNull
    /\ lastOp.returned.observations # <<>>

----
\* -------------------------------------------------- claims: the cache key

Occurrences(list, x) == Cardinality({ i \in 1..Len(list) : list[i] = x })

SameBag(l1, l2) ==
    \A x \in Elements(l1) \cup Elements(l2) :
        Occurrences(l1, x) = Occurrences(l2, x)

\* C7 as stated: two requests with the same rounded viewport, recency,
\* hasPhoto, set of taxa and set of providers get the same key, whatever the
\* order or repetition of the list elements.
C7_SameContentSameKey ==
    Len(keyCalls) = 2 => keyCalls[1].key = keyCalls[2].key

\* C7 amended: they get the same key whatever the order of the list elements,
\* if each taxon and each provider occurs as often in the one as in the other.
C7_SameBagSameKey ==
    (/\ Len(keyCalls) = 2
     /\ SameBag(keyCalls[1].filters.taxa, keyCalls[2].filters.taxa)
     /\ SameBag(keyCalls[1].filters.provider, keyCalls[2].filters.provider))
    => keyCalls[1].key = keyCalls[2].key

\* Two requests that list two taxa in opposite orders, from two latitudes.
C7_ReorderedReached ==
    /\ Len(keyCalls) = 2
    /\ Len(keyCalls[1].filters.taxa) = 2
    /\ keyCalls[1].filters.taxa # keyCalls[2].filters.taxa
    /\ SameBag(keyCalls[1].filters.taxa, keyCalls[2].filters.taxa)
    /\ SameBag(keyCalls[1].filters.provider, keyCalls[2].filters.provider)
    /\ keyCalls[1].lat # keyCalls[2].lat
    /\ keyCalls[1].key = keyCalls[2].key

----
\* ------------------------------------------------ claims: the avian client

RECURSIVE ConcatUpTo(_, _)
ConcatUpTo(requests, n) ==
    IF n = 0 THEN <<>> ELSE ConcatUpTo(requests, n - 1) \o requests[n].data

Centers == { ebird.requests[k].center : k \in 1..Len(ebird.requests) }

\* The sub-requests form an n x n grid of distinct centres.
IsGrid(n) ==
    /\ Len(ebird.requests) = n * n
    /\ Cardinality(Centers) = n * n
    /\ Cardinality({ c[1] : c \in Centers }) = n
    /\ Cardinality({ c[2] : c \in Centers }) = n

\* C9: a call of fetchRecentEbird that has its API key issues one request for
\* a radius of at most 50 km, 4 (a 2 x 2 grid) for a radius over 50 km and at
\* most 100 km, 9 (a 3 x 3 grid) for a radius over 100 km, each with a radius
\* of at most 50 km, and returns the concatenation of the results.
C9_TilingShape ==
    ebird.pc \in {"waiting", "returned"}
    => /\ ebird.radiusKm <= 5000 => Len(ebird.requests) = 1
       /\ (ebird.radiusKm > 5000 /\ ebird.radiusKm <= 10000) => IsGrid(2)
       /\ ebird.radiusKm > 10000 => IsGrid(3)
       /\ \A k \in 1..Len(ebird.requests) : ebird.requests[k].dist <= 5000
       /\ ebird.pc = "returned"
          => ebird.value = ConcatUpTo(ebird.requests, Len(ebird.requests))

\* A 3 x 3 call has returned the results of its tiles, one of which failed.
C9_NineTilesReached ==
    /\ ebird.pc = "returned"
    /\ ebird.radiusKm > 10000
    /\ Len(ebird.requests) = 9
    /\ \E k \in 1..9 : ebird.requests[k].state = "failed"
    /\ Len(ebird.value) >= 2

\* Points of the region: a grid of step R / 4 around the centre, cut to the
\* circle of radius R.
RegionPoints(radius) ==
    { p \in { <<a * (radius \div 4), b * (radius \div 4)>> :
              a \in -4..4, b \in -4..4 } :
      p[1] * p[1] + p[2] * p[2] <= radius * radius }

\* C10: for a radius over 50 km, every point within the radius of the centre
\* is within 50 km of one of the sub-centres of createTiles.
C10_TilesCoverRegion ==
    (ebird.pc \in {"waiting", "returned"} /\ ebird.radiusKm > 5000)
    => \A p \in RegionPoints(ebird.radiusKm) :
           \E c \in Centers :
               (p[1] - c[1]) * (p[1] - c[1]) + (p[2] - c[2]) * (p[2] - c[2])
                   <= 5000 * 5000

----
\* ------------------------------------------------ claims on one request

NotANumber(raw) == raw.kind \in {"missing", "text"}

OutOfRange(query) ==
    \/ query.latDelta.kind = "number" /\ query.latDelta.v <= 0
    \/ query.lngDelta.kind = "number" /\ query.lngDelta.v <= 0
    \/ query.lat.kind = "number"
         /\ (query.lat.v < -900000 \/ query.lat.v > 900000)
    \/ query.lng.kind = "number"
         /\ (query.lng.v < -1800000 \/ query.lng.v > 1800000)

NoUpstreamCall(req) == req.ebird = <<>> /\ req.inat = <<>>

\* C8: a GET whose lat, lng, latDelta or lngDelta is missing, non-numeric or
\* out of range (a delta <= 0, a latitude outside [-90, 90], a longitude
\* outside [-180, 180]) is answered 400 and reaches neither the cache lookup
\* nor a provider.
C8_MalformedViewportIsRejected ==
    \A r \in 1..Len(reqs) :
        LET q == reqs[r].query
        IN  (/\ q.method = "GET"
             /\ \/ NotANumber(q.lat) \/ NotANumber(q.lng)
                \/ NotANumber(q.latDelta) \/ NotANumber(q.lngDelta)
                \/ OutOfRange(q))
            => /\ reqs[r].status = 400
               /\ ~reqs[r].lookedUp
               /\ NoUpstreamCall(reqs[r])

AllFailed(calls) ==
    calls # <<>> /\ \A k \in 1..Len(calls) : calls[k].state = "failed"

AllOk(calls) ==
    calls # <<>> /\ \A k \in 1..Len(calls) : calls[k].state = "ok"

DataOf(calls) == flat([k \in 1..Len(calls) |-> calls[k].data])

\* The avian client threw: the credential is absent and the handler called
\* the client.
EbirdThrew(req) ==
    /\ ~ebirdApiKey
    /\ req.lookedUp /\ ~req.hit
    /\ ~("ebird" \notin Elements(req.filters.provider)
           /\ req.filters.provider # <<>>)
    /\ req.filters.hasPhoto # "true"

PassesFilters(obs, filters) ==
    /\ filters.taxa # <<>> => obs.taxaBucket \in Elements(filters.taxa)
    /\ filters.provider # <<>> => obs.provider \in Elements(filters.provider)
    /\ filters.hasPhoto = "true" => obs.photoUrl # Undefined
    /\ filters.hasPhoto = "false" => obs.photoUrl = Undefined

\* C2 as stated: whenever exactly one provider client fails (throws,
\* non-2xx, timeout, malformed body) and the other succeeds, the answer is
\* 200 and its list is exactly the other provider's deduplicated output.
C2_OneProviderFailingNeverFailsTheRequest ==
    \A r \in 1..Len(reqs) :
        /\ (reqs[r].pc = "done"
              /\ (AllFailed(reqs[r].ebird) \/ EbirdThrew(reqs[r]))
              /\ AllOk(reqs[r].inat))
           => /\ reqs[r].status = 200
              /\ reqs[r].body =
                     deduplicateObservations(DataOf(reqs[r].inat))
        /\ (reqs[r].pc = "done"
              /\ AllFailed(reqs[r].inat) /\ AllOk(reqs[r].ebird))
           => /\ reqs[r].status = 200
              /\ reqs[r].body =
                     deduplicateObservations(DataOf(reqs[r].ebird))

\* C2 amended: when every HTTP call of one provider fails and the other
\* provider's calls succeed, the answer is 200 and its list is the other
\* provider's deduplicated output restricted to the records that pass the
\* request's filters.
C2_TransportFailureOfOneProviderIsAbsorbed ==
    \A r \in 1..Len(reqs) :
        /\ (reqs[r].pc = "done"
              /\ AllFailed(reqs[r].ebird) /\ AllOk(reqs[r].inat))
           => /\ reqs[r].status = 200
              /\ reqs[r].body =
                     SelectSeq(deduplicateObservations(DataOf(reqs[r].inat)),
                               LAMBDA obs :
                                   PassesFilters(obs, reqs[r].filters))
        /\ (reqs[r].pc = "done"
              /\ AllFailed(reqs[r].inat) /\ AllOk(reqs[r].ebird))
           => /\ reqs[r].status = 200
              /\ reqs[r].body =
                     SelectSeq(deduplicateObservations(DataOf(reqs[r].ebird)),
                               LAMBDA obs :
                                   PassesFilters(obs, reqs[r].filters))

C2_SurvivingProviderAnsweredReached ==
    \E r \in 1..Len(reqs) :
        /\ reqs[r].pc = "done"
        /\ AllFailed(reqs[r].ebird)
        /\ AllOk(reqs[r].inat)
        /\ reqs[r].status = 200
        /\ Len(reqs[r].body) = 2

----
\* ------------------------------------------- claims on the cached endpoint

\* C1 as stated: once a request has been answered 200 from the providers,
\* every identical request that arrives later and within the TTL gets the
\* identical list and issues no upstream call.
C1_AnsweredViewportIsRepeatedWithinTtl ==
    \A a \in answered :
        \A r \in 1..Len(reqs) :
            (/\ r > a.arrived
             /\ reqs[r].query = a.query
             /\ reqs[r].at - a.at < 5 * 60 * 1000)
            => /\ reqs[r].status = 200
               /\ reqs[r].body = a.body
               /\ NoUpstreamCall(reqs[r])

FreshEntryAtArrival(req) ==
    /\ req.lookedUp
    /\ req.stored # <<>>
    /\ req.at - req.stored[1].timestamp <= 5 * 60 * 1000

\* C1 amended: a request that arrives while the cache holds an entry for
\* its key that is at most TTL old is answered 200 with exactly the stored
\* list and issues no upstream call.
C1_FreshEntryIsServedWithoutUpstreamCall ==
    \A r \in 1..Len(reqs) :
        FreshEntryAtArrival(reqs[r])
        => /\ reqs[r].pc = "done"
           /\ reqs[r].status = 200
           /\ reqs[r].body = reqs[r].stored[1].observations
           /\ NoUpstreamCall(reqs[r])

C1_RepeatServedFromCacheReached ==
    \E r \in 1..Len(reqs) :
        /\ FreshEntryAtArrival(reqs[r])
        /\ reqs[r].at > reqs[r].stored[1].timestamp
        /\ reqs[r].status = 200
        /\ reqs[r].body # <<>>
        /\ \E a \in answered : a.query = reqs[r].query /\ a.arrived < r

WrittenBy(entry) ==
    { a \in answered : /\ a.body = entry.observations
                       /\ a.at = entry.timestamp
                       /\ \E r \in 1..Len(reqs) :
                              /\ reqs[r].query = a.query
                              /\ reqs[r].cacheKey = entry.key
                              /\ reqs[r].status = 200
                              /\ ~reqs[r].hit
                              /\ reqs[r].body = a.body }

\* C23: with requests interleaving at their awaits, the store never holds
\* more than 100 entries, holds one entry per key, and every entry is the
\* list one request computed for that key with the time of that write
\* (the other viewports' requests store the empty list).
C23_StoreIsBoundedAndEntriesAreWhole ==
    /\ Len(cache) <= CACHE_MAX_SIZE
    /\ \A k, l \in 1..Len(cache) : k # l => cache[k].key # cache[l].key
    /\ \A k \in 1..Len(cache) :
           IF \E r \in 1..Len(reqs) : reqs[r].cacheKey = cache[k].key
           THEN WrittenBy(cache[k]) # {}
           ELSE cache[k].observations = <<>> /\ cache[k].timestamp <= now

\* Two overlapping requests for one key have both missed and both stored,
\* at different times and with different lists, and the store is full.
C23_OverlappingWritesReached ==
    /\ Len(cache) > CACHE_MAX_SIZE - CACHE_EVICT_COUNT
    /\ \E a, b \in answered :
           /\ a.query = b.query
           /\ a.at < b.at
           /\ a.body # b.body
           /\ \E k \in 1..Len(cache) : b \in WrittenBy(cache[k])

NoFilters(filters) ==
    /\ filters.recency = Null
    /\ filters.hasPhoto = Null
    /\ filters.taxa = <<>>
    /\ filters.provider = <<>>

Missed(req) == req.lookedUp /\ ~req.hit

\* The requests sent for a miss: one per selected provider, the avian one
\* only if the client has its credential; without filters one to each.
OnePerSelectedProvider(req) ==
    /\ Len(req.inat) = IF shouldFetchInat(req.filters) THEN 1 ELSE 0
    /\ Len(req.ebird) =
           IF shouldFetchEbirdWithPhotoFilter(req.filters) /\ ebirdApiKey
           THEN 1 ELSE 0
    /\ (NoFilters(req.filters) /\ ebirdApiKey)
       => Len(req.ebird) = 1 /\ Len(req.inat) = 1

\* A request that has completed or failed is not sent again, and an
\* invocation sends nothing after its entry.
NothingIsRetried ==
    \A r \in 1..Len(reqs) :
        /\ Len(reqs'[r].ebird) = Len(reqs[r].ebird)
        /\ Len(reqs'[r].inat) = Len(reqs[r].inat)
        /\ \A k \in 1..Len(reqs[r].ebird) :
               reqs[r].ebird[k].state # "pending"
               => reqs'[r].ebird[k] = reqs[r].ebird[k]
        /\ \A k \in 1..Len(reqs[r].inat) :
               reqs[r].inat[k].state # "pending"
               => reqs'[r].inat[k] = reqs[r].inat[k]

\* C24: on a cache miss each selected provider is sent exactly one request
\* (the radius is at most 50 km), nothing is sent again after a failure,
\* and a request without filters sends exactly one to the avian service and
\* one to iNaturalist.
C24_SingleAttemptPerUpstreamCall ==
    /\ [](\A r \in 1..Len(reqs) :
             Missed(reqs[r]) => OnePerSelectedProvider(reqs[r]))
    /\ [][NothingIsRetried]_vars

\* Scenario A without filters: both requests failed, and the answer is 200
\* with the empty list after one request to each provider.
C24_BothFailedOnceReached ==
    \E r \in 1..Len(reqs) :
        /\ Missed(reqs[r])
        /\ reqs[r].status = 200
        /\ NoFilters(reqs[r].filters)
        /\ reqs[r].query.latDelta.v = 5000
        /\ Len(reqs[r].ebird) = 1 /\ reqs[r].ebird[1].state = "failed"
        /\ Len(reqs[r].inat) = 1 /\ reqs[r].inat[1].state = "failed"
        /\ reqs[r].body = <<>>

\* One or both providers of a miss failed and the request was answered.
Degraded(req) ==
    /\ Missed(req)
    /\ req.status = 200
    /\ \/ \E k \in 1..Len(req.ebird) : req.ebird[k].state = "failed"
       \/ \E k \in 1..Len(req.inat) : req.inat[k].state = "failed"

DegradedAnswers == { a \in answered : Degraded(reqs[a.by]) }

\* C25 as stated: once a miss with a failed provider has been answered,
\* every identical request that arrives later and within the TTL is
\* answered from the cache with that list and calls no provider.
C25_DegradedListIsRepeatedWithinTtl ==
    \A a \in DegradedAnswers :
        \A r \in 1..Len(reqs) :
            (/\ r > a.arrived
             /\ reqs[r].query = a.query
             /\ reqs[r].at - a.at <= CACHE_TTL_MS)
            => /\ reqs[r].hit
               /\ reqs[r].body = a.body
               /\ NoUpstreamCall(reqs[r])

\* The answer of invocation r in this step stores its list under its key
\* with the time of the step.
StoresItsAnswer(r) ==
    \E k \in 1..Len(cache') :
        /\ cache'[k].key = reqs[r].cacheKey
        /\ cache'[k].observations = reqs'[r].body
        /\ cache'[k].timestamp = now

DegradedAnswerIsStored ==
    \A r \in 1..Len(reqs) :
        (reqs[r].pc = "waiting" /\ reqs'[r].pc = "done")
        => StoresItsAnswer(r)

StoredByDegraded(entry) ==
    \E a \in DegradedAnswers :
        a.at = entry.timestamp /\ a.body = entry.observations

\* C25 amended: the list of a degraded answer, the empty one included, is
\* stored under the request's key when the answer is sent, and a request
\* that arrives while that entry is stored and at most TTL old is answered
\* 200 with it and calls no provider.
C25_DegradedListIsStoredAndServedWhileFresh ==
    /\ [][DegradedAnswerIsStored]_vars
    /\ [](\A r \in 1..Len(reqs) :
             (FreshEntryAtArrival(reqs[r])
                /\ StoredByDegraded(reqs[r].stored[1]))
             => /\ reqs[r].hit
                /\ reqs[r].status = 200
                /\ reqs[r].body = reqs[r].stored[1].observations
                /\ NoUpstreamCall(reqs[r]))

\* Both providers failed, the empty list was stored, and a later request
\* was answered with it from the cache.
C25_EmptyListServedFromCacheReached ==
    \E r \in 1..Len(reqs) :
        /\ FreshEntryAtArrival(reqs[r])
        /\ StoredByDegraded(reqs[r].stored[1])
        /\ reqs[r].stored[1].observations = <<>>
        /\ reqs[r].at > reqs[r].stored[1].timestamp
        /\ reqs[r].hit
        /\ reqs[r].body = <<>>

EntriesOf(c) == { c[k] : k \in 1..Len(c) }

\* The invocations that were answered in this step with one of the
\* statuses.
AnsweredNow(statuses) ==
    { r \in 1..Len(reqs') :
        /\ reqs'[r].pc = "done"
        /\ reqs'[r].status \in statuses
        /\ (r <= Len(reqs) => reqs[r].pc # "done") }

RejectedLeavesCacheUntouched ==
    /\ AnsweredNow({400, 405}) # {}
       => /\ cache' = cache
          /\ \A r \in AnsweredNow({400, 405}) : NoUpstreamCall(reqs'[r])
    /\ AnsweredNow({500}) # {} => EntriesOf(cache') \subseteq EntriesOf(cache)
    /\ ~(EntriesOf(cache') \subseteq EntriesOf(cache))
       => \E r \in AnsweredNow({200}) : Missed(reqs'[r])

\* C27: a request answered 405 or 400 leaves the cache as it is and calls no
\* provider, a request answered 500 adds, overwrites and timestamps no
\* entry, and an entry is written only by a request answered 200 after a
\* miss.
C27_RejectedAndFailedRequestsLeaveTheCache == [][RejectedLeavesCacheUntouched]_vars

\* A request answered 500 and one answered 400 or 405 arrived while the
\* cache held an entry, and the entry is as the answered request wrote it.
C27_RejectedWhileCacheHeldEntryReached ==
    /\ Len(cache) = 1
    /\ \E a \in answered :
           /\ a.body = cache[1].observations
           /\ a.at = cache[1].timestamp
           /\ \E r \in 1..Len(reqs) :
                  r > a.arrived /\ reqs[r].status = 500
           /\ \E r \in 1..Len(reqs) :
                  r > a.arrived /\ reqs[r].status \in {400, 405}

\* Two invocations with one key that both looked up while the Map held
\* nothing for it: neither had stored when the other looked up.
BothLookedUpBeforeEitherStored(r1, r2) ==
    /\ r1 < r2
    /\ reqs[r1].lookedUp /\ reqs[r2].lookedUp
    /\ reqs[r1].cacheKey = reqs[r2].cacheKey
    /\ reqs[r1].stored = <<>> /\ reqs[r2].stored = <<>>

FansOut(req) ==
    /\ Len(req.inat) = IF shouldFetchInat(req.filters) THEN 1 ELSE 0
    /\ ebirdApiKey
       => Len(req.ebird) =
              IF shouldFetchEbirdWithPhotoFilter(req.filters) THEN 1 ELSE 0

EachMissesAndFansOut ==
    \A r1, r2 \in 1..Len(reqs) :
        BothLookedUpBeforeEitherStored(r1, r2)
        => /\ Missed(reqs[r1]) /\ Missed(reqs[r2])
           /\ FansOut(reqs[r1]) /\ FansOut(reqs[r2])

\* The invocation that answers 200 after a miss in this step returns the
\* list computed from its own calls and leaves it in the Map with the time
\* of this step, replacing what another invocation stored.
AnswersWithItsOwnListAndStoresIt ==
    \A r \in 1..Len(reqs) :
        (reqs[r].pc = "waiting" /\ reqs'[r].pc = "done")
        => /\ reqs'[r].status = 200
           /\ reqs'[r].body = handlerResult(reqs[r])
           /\ StoresItsAnswer(r)
           /\ \A k \in 1..Len(cache') :
                  cache'[k].key = reqs[r].cacheKey
                  => /\ cache'[k].observations = reqs'[r].body
                     /\ cache'[k].timestamp = now

\* C30: two requests with one key that both look up before either has
\* stored both miss and both call the providers on their own; each returns
\* the list it computed and calls setCached, and the entry left is the list
\* and the time of whichever called setCached last.
C30_NoSingleFlight ==
    /\ []EachMissesAndFansOut
    /\ [][AnswersWithItsOwnListAndStoresIt]_vars

\* Two overlapping requests for one key were answered with different lists
\* at different times, and the Map holds the later list with the later time.
C30_LastWriterWinsReached ==
    \E a, b \in answered :
        /\ BothLookedUpBeforeEitherStored(a.by, b.by)
        /\ a.at > b.at
        /\ a.body # b.body
        /\ reqs[a.by].body = a.body /\ reqs[b.by].body = b.body
        /\ \E k \in 1..Len(cache) :
               /\ cache[k].key = reqs[a.by].cacheKey
               /\ cache[k].observations = a.body
               /\ cache[k].timestamp = a.at

----
\* ----------------------------------------- claims on the large viewports

\* C11: a request that misses the cache, has no filters and has
\* latDelta = lngDelta = 2.0 makes the avian client send 9 tile requests,
\* and any viewport whose average delta exceeds 0.9 degrees makes it send
\* more than one.
C11_LargeViewportIsTiled ==
    \A r \in 1..Len(reqs) :
        LET q == reqs[r].query
        IN  (/\ ebirdApiKey
             /\ reqs[r].lookedUp /\ ~reqs[r].hit
             /\ q.provider = <<>>)
            => /\ (q.latDelta.v = 20000 /\ q.lngDelta.v = 20000)
                  => Len(reqs[r].ebird) = 9
               /\ (q.latDelta.v + q.lngDelta.v > 2 * 9000)
                  => Len(reqs[r].ebird) > 1

\* C12 as stated: on a cache miss the response, 200 or 500, is sent only
\* after every provider sub-call that was started has completed or failed.
C12_NoResponseWhileCallInFlightAtAll ==
    \A r \in 1..Len(reqs) :
        (reqs[r].pc = "done" /\ reqs[r].lookedUp /\ ~reqs[r].hit)
        => /\ \A k \in 1..Len(reqs[r].ebird) :
                  reqs[r].ebird[k].state \in {"ok", "failed"}
           /\ \A k \in 1..Len(reqs[r].inat) :
                  reqs[r].inat[k].state \in {"ok", "failed"}

\* C12 amended: on a cache miss a 200 response is sent only after every
\* provider sub-call that was started has completed or failed.
C12_No200WhileCallInFlight ==
    \A r \in 1..Len(reqs) :
        (reqs[r].pc = "done" /\ reqs[r].status = 200 /\ ~reqs[r].hit)
        => /\ \A k \in 1..Len(reqs[r].ebird) :
                  reqs[r].ebird[k].state \in {"ok", "failed"}
           /\ \A k \in 1..Len(reqs[r].inat) :
                  reqs[r].inat[k].state \in {"ok", "failed"}

C12_AnsweredAfterBothSettledReached ==
    \E r \in 1..Len(reqs) :
        /\ reqs[r].pc = "done"
        /\ reqs[r].status = 200
        /\ ~reqs[r].hit
        /\ Len(reqs[r].ebird) = 1 /\ reqs[r].ebird[1].state = "failed"
        /\ Len(reqs[r].inat) = 1 /\ reqs[r].inat[1].state = "ok"

AvianSelected(filters) ==
    /\ filters.provider = <<>> \/ "ebird" \in Elements(filters.provider)
    /\ filters.hasPhoto # "true"

NothingStoredFor(req) ==
    \A i \in 1..Len(cache) : cache[i].key # req.cacheKey

\* C13 as stated: without EBIRD_API_KEY every valid GET that misses the
\* cache is answered 500, whatever its filters, and stores nothing.
C13_MissingCredentialAlwaysFails ==
    \A r \in 1..Len(reqs) :
        (/\ ~ebirdApiKey
         /\ reqs[r].pc = "done"
         /\ reqs[r].lookedUp /\ ~reqs[r].hit)
        => /\ reqs[r].status = 500
           /\ NothingStoredFor(reqs[r])

\* C13 amended: without EBIRD_API_KEY a valid GET that misses the cache is
\* answered 500 with a message, and stores nothing, exactly when its filters
\* select the avian provider (provider empty or containing ebird, and
\* hasPhoto not true); otherwise it is not answered 500.
C13_MissingCredentialFailsAvianRequests ==
    \A r \in 1..Len(reqs) :
        (~ebirdApiKey /\ reqs[r].lookedUp /\ ~reqs[r].hit)
        => IF AvianSelected(reqs[r].filters)
           THEN /\ reqs[r].pc = "done"
                /\ reqs[r].status = 500
                /\ reqs[r].message # ""
                /\ reqs[r].body = <<>>
                /\ NothingStoredFor(reqs[r])
           ELSE reqs[r].status # 500

C13_FilteredRequestFailedReached ==
    \E r \in 1..Len(reqs) :
        /\ ~ebirdApiKey
        /\ reqs[r].status = 500
        /\ reqs[r].filters.taxa = <<"Mammal">>
        /\ reqs[r].filters.hasPhoto = "false"

----
\* ------------------------------------------- claims on the share endpoint

FirstDash(s) ==
    CHOOSE i \in 1..Len(s) : s[i] = Dash /\ \A j \in 1..(i - 1) : s[j] # Dash

\* The provider tag of an id: what precedes its first dash.
ProviderTag(s) == SubSeq(s, 1, FirstDash(s) - 1)

\* C14: a GET of the share endpoint for an id whose provider tag (the part
\* before the first dash) is ebird is answered 501 with an explanation, no
\* upstream call is made and no observation is returned.
C14_AvianPointLookupIsUnsupported ==
    (/\ share.pc # "idle"
     /\ share.method = "GET"
     /\ share.id.kind = "string"
     /\ HasDash(share.id.pieces)
     /\ ProviderTag(share.id.pieces) = <<"ebird">>)
    => /\ share.pc = "done"
       /\ share.status = 501
       /\ share.error # "" /\ share.message # ""
       /\ share.call = <<>>
       /\ share.observation = <<>>
       /\ share.redirect = <<>>

C14_AvianIdWithDashesReached ==
    /\ share.pc = "done"
    /\ share.status = 501
    /\ share.id.pieces = <<"ebird", Dash, "x7", Dash>>

----
\* ---------------------------------------------- claims on the normalizer

SameProvider(i, j) == normalized[i].provider = normalized[j].provider

SameRecord(i, j) ==
    SameProvider(i, j) /\ normalized[i].raw = normalized[j].raw

\* C15: the same upstream record normalized in two fetches, at any two
\* times, gets the same id.
C15_SameRecordSameId ==
    \A i, j \in 1..Len(normalized) :
        SameRecord(i, j)
        => normalized[i].observation.id = normalized[j].observation.id

\* Two sightings that are not one record fetched twice: another species for
\* the avian service, another id for iNaturalist.
DistinctSightings(i, j) ==
    /\ SameProvider(i, j)
    /\ IF normalized[i].provider = "ebird"
       THEN normalized[i].raw.comName # normalized[j].raw.comName
       ELSE normalized[i].raw.id # normalized[j].raw.id

\* C16: two different native records of one provider never get the same
\* id, so the exact-id rule of the deduplicator never drops a distinct
\* sighting, such as another species of the same avian checklist.
C16_DistinctSightingsDistinctIds ==
    \A i, j \in 1..Len(normalized) :
        DistinctSightings(i, j)
        => /\ normalized[i].observation.id # normalized[j].observation.id
           /\ Len(deduplicateObservations(
                      << normalized[i].observation,
                         normalized[j].observation >>)) = 2

\* C17: every request the avian client sends, for any radius and backDays
\* and on every tile, has a search radius of at most 50 km and a lookback
\* of at most 30 days.
C17_AvianRequestsWithinLimits ==
    ebird.pc \in {"waiting", "returned"}
    => \A k \in 1..Len(ebird.requests) :
           /\ ebird.requests[k].dist <= 50 * 100
           /\ ebird.requests[k].back <= 30

C17_LongLookbackOnTilesReached ==
    /\ ebird.pc = "waiting"
    /\ ebird.backDays = 45
    /\ Len(ebird.requests) = 9
    /\ ebird.requests[9].back = 30
    /\ ebird.requests[9].dist = 50 * 100

----
\* -------------------------------------------------- claims on the client

DebouncedFetches ==
    { k \in 1..Len(client.fetches) : client.fetches[k].cause = "debounce" }

C19_EveryReturnedObservationPassesTheFilters ==
    \A r \in 1..Len(reqs) :
        reqs[r].status = 200
        => \A k \in 1..Len(reqs[r].body) :
               PassesFilters(reqs[r].body[k], reqs[r].filters)

----
\* ------------------------------------------ claims on the iNaturalist client

Finite(obs) == obs.nan = <<FALSE, FALSE>>

ResolvableLocation(raw) ==
    /\ hasLocation(raw)
    /\ ~coordinate(raw, 1).nan
    /\ ~coordinate(raw, 2).nan

\* C22: every observation the iNaturalist client returns, from the list
\* fetch or the point lookup, has a finite latitude and longitude, and no
\* upstream record whose location is missing, empty or not two numbers is
\* among them.
C22_ReturnedCoordinatesAreFinite ==
    inat.pc = "done"
    => /\ \A k \in 1..Len(inat.result) : Finite(inat.result[k])
       /\ \A k \in 1..Len(inat.response) :
              ~ResolvableLocation(inat.response[k])
              => \A l \in 1..Len(inat.result) :
                     inat.result[l].id
                         # <<"inat", ToString(inat.response[k].id)>>

Georeferenced(page) == { k \in 1..Len(page) : hasLocation(page[k]) }

InatAllOrNothing ==
    (inat.pc = "done" /\ inat.op = "list" /\ inat.outcome = "ok")
    => IF \E k \in Georeferenced(inat.response) :
              normalizeInatThrows(inat.response[k])
       THEN inat.result = <<>>
       ELSE Len(inat.result) = Cardinality(Georeferenced(inat.response))

EbirdAllOrNothing ==
    ebird.pc = "single"
    => IF \E k \in 1..Len(ebird.data) : ebird.data[k].null
       THEN ebird.value = <<>>
       ELSE Len(ebird.value) = Len(ebird.data)

\* C28: if normalizing one record of a page throws, the provider call
\* returns the empty list and none of the page's other records; otherwise
\* it returns one observation per record it normalizes.
C28_ProviderResultIsAllOrNothing == InatAllOrNothing /\ EbirdAllOrNothing

\* A page of two located records, the first well-formed, the second with
\* an observed_on_string that is no date: nothing is returned.
C28_GoodRecordLostWithBadOneReached ==
    /\ inat.pc = "done" /\ inat.op = "list" /\ inat.outcome = "ok"
    /\ Len(inat.response) = 2
    /\ ResolvableLocation(inat.response[1])
    /\ ~normalizeInatThrows(inat.response[1])
    /\ hasLocation(inat.response[2])
    /\ normalizeInatThrows(inat.response[2])
    /\ inat.result = <<>>

----
\* ------------------------------------------ claims on the observation store

IdsOf(list) == { list[k].id : k \in 1..Len(list) }

\* The new list holds every new record, every old record whose id is not
\* among the new ones, nothing else, and each id once.
MergedById(old, new, merged) ==
    /\ \A k \in 1..Len(new) : InRange(merged, new[k])
    /\ \A k \in 1..Len(old) :
           old[k].id \notin IdsOf(new) => InRange(merged, old[k])
    /\ \A k \in 1..Len(merged) :
           InRange(new, merged[k]) \/ InRange(old, merged[k])
    /\ Cardinality(IdsOf(merged)) = Len(merged)

CompletionWritesItsOwnResult ==
    \A c \in 1..Len(store.calls) :
        /\ (store.calls[c].state = "pending" /\ store'.calls[c].state = "ok")
           => /\ store'.viewport = store.calls[c].viewport
              /\ store'.isLoading = FALSE
              /\ IF store.variant = "merge"
                 THEN MergedById(store.observations, store'.calls[c].data,
                                 store'.observations)
                 ELSE store'.observations = store'.calls[c].data
        /\ (store.calls[c].state = "pending"
              /\ store'.calls[c].state = "failed")
           => /\ store'.viewport = store.viewport
              /\ store'.observations = store.observations
              /\ store'.isLoading = FALSE

\* C29: every fetch that completes writes its own list (merged by id in
\* the merging store) and its own viewport into the store and sets
\* isLoading to false, whatever the order in which the fetches were started,
\* whatever the filters are by then and whether or not other fetches are
\* still in flight; a fetch that fails leaves list and viewport alone.
C29_StoreAppliesResponsesInCompletionOrder ==
    [][CompletionWritesItsOwnResult]_vars

\* The second fetch completed first and the first one last: the store has
\* the first fetch's viewport and list although the filters have changed
\* since it started, and isLoading is false while a third is in flight.
C29_OlderFetchOverwroteNewerReached ==
    /\ store.pc = "mounted"
    /\ store.variant = "replace"
    /\ store.completed = <<2, 1>>
    /\ Len(store.calls) = 3
    /\ store.calls[1].state = "ok" /\ store.calls[2].state = "ok"
    /\ store.calls[3].state = "pending"
    /\ store.calls[1].viewport # store.calls[2].viewport
    /\ store.calls[1].data # store.calls[2].data
    /\ store.calls[1].filters # store.filters
    /\ store.viewport = store.calls[1].viewport
    /\ store.observations = store.calls[1].data
    /\ ~store.isLoading

====
